---- MODULE Spec2Model ----
(***************************************************************************)
(* Verification model of the actor-core reactor (src/src/core/reactor.cc). *)
(*                                                                         *)
(* The module holds several state machines, one per subsystem, that share  *)
(* one set of variables.  Each specification initialises the variables of  *)
(* the other subsystems to a fixed idle value and leaves them unchanged:   *)
(*   SpecSmp    cross-shard message queue (smp_message_queue)              *)
(*   SpecSched  task queues and the weighted-fair scheduler                *)
(*   SpecSchedFair  the same, with a reactor loop that keeps running       *)
(*   SpecTimer  timers and reactor::complete_timers                        *)
(*   SpecStop   at_exit / stop / exit and their propagation to the shards  *)
(*   SpecDrain  the end of the loop of reactor::run, with tasks pending    *)
(***************************************************************************)
EXTENDS Integers, Sequences, FiniteSets, TLC

(***************************************************************************)
(* Generic helpers                                                         *)
(***************************************************************************)
Min(a, b) == IF a <= b THEN a ELSE b

Max(a, b) == IF a >= b THEN a ELSE b

\* the first n elements of s
Take(s, n) == SubSeq(s, 1, Min(n, Len(s)))

\* s without its first n elements
Drop(s, n) == SubSeq(s, Min(n, Len(s)) + 1, Len(s))

Range(s) == {s[k] : k \in 1..Len(s)}

\* s without its element at position k
RemoveAt(s, k) == SubSeq(s, 1, k - 1) \o SubSeq(s, k + 1, Len(s))

IsIncreasing(s) == \A a, b \in 1..Len(s) : a < b => s[a] < s[b]

(* The state of the program, one group of variables per component. *)
VARIABLES
    nextItem,        \* payload of the next submit_item call
    semAvail,        \* units available in the service-group semaphore
    semWait,         \* submit_item calls waiting for a unit, in call order
    pending_fifo,    \* _tx.a.pending_fifo of the producer
    pendingRing,     \* _pending (lf_queue of requests)
    handled,         \* payloads in the order wi->process() saw them
    inflight,        \* items being processed on the consumer
    completed_fifo,  \* _completed_fifo of the consumer
    completedRing,   \* _completed (lf_queue of responses)
    failedItems,     \* items failed locally by a semaphore timeout
    deletedItems,    \* items completed and deleted by the producer
    partialPush      \* history: move_pending pushed a strict prefix

smpVars == <<nextItem, semAvail, semWait, pending_fifo, pendingRing, handled,
             inflight, completed_fifo, completedRing, failedItems,
             deletedItems, partialPush>>

VARIABLES
    tq_q,                     \* task_queue::_q of every queue
    tq_active,                \* task_queue::_active
    tq_vruntime,              \* task_queue::_vruntime
    active_task_queues,       \* reactor::_active_task_queues
    activating_task_queues,   \* reactor::_activating_task_queues
    last_vruntime,            \* reactor::_last_vruntime
    need_preempt,             \* the preemption monitor
    spc,                      \* position of the shard in run_some_tasks
    cur,                      \* the queue run_tasks is running (_current)
    excuse,                   \* history: what delayed the probe, if anything
    charged,                  \* history: how the step just taken charged a
                              \* runtime; "none" if it charged nothing
    maxCharge,                \* history: the largest vruntime charged for
                              \* one batch so far
    longest,                  \* history: the step just taken charged a batch
                              \* of MaxDelta ticks, the longest there is
    ranTask,                  \* history: the running call of run_tasks has
                              \* run a task
    resets                    \* history: calls of reset_preemption_monitor
                              \* in the running call of run_tasks, counted
                              \* up to MaxResets

schedVars == <<tq_q, tq_active, tq_vruntime, active_task_queues,
               activating_task_queues, last_vruntime, need_preempt, spc, cur,
               excuse, charged, maxCharge, longest, ranTask, resets>>

VARIABLES
    t_armed,          \* timer::_armed
    t_queued,         \* timer::_queued
    t_expired,        \* timer::_expired
    t_expiry,         \* timer::_expiry, the deadline
    t_period,         \* timer::_period
    timer_set,        \* reactor::_timers
    expired_timers,   \* reactor::_expired_timers
    now,              \* the clock
    tpc,              \* "idle", or "expiring" inside complete_timers
    unfired,          \* history: arms of a timer not yet fired nor cancelled
    batchFired,       \* history: deadlines fired in the running batch
    armedInBatch,     \* history: timers armed since the batch was taken
    cbSelf,           \* history: what the last callback did to its own timer
    cur_sg,           \* *detail::current_scheduling_group_ptr(); outside
                      \* complete_timers and its caller, the default group
    prev_sg,          \* complete_timers: the local prev_sg (0 outside)
    threwAt           \* history: the place in batchFired of the first
                      \* callback that threw in the batch that is running
                      \* or has just ended, 0 if none did

timerVars == <<t_armed, t_queued, t_expired, t_expiry, t_period, timer_set,
               expired_timers, now, tpc, unfired, batchFired,
               armedInBatch, cbSelf, cur_sg, prev_sg, threwAt>>

VARIABLES
    exit_funcs,    \* reactor::_exit_funcs of every shard
    stopping,      \* reactor::_stopping
    stopped,       \* reactor::_stopped
    retval,        \* reactor::_return
    runs,          \* the run_exit_tasks calls made so far, with their progress
    inbox,         \* invoke_on_others requests in flight to every shard
    ackbox,        \* their completions in flight to shard 0
    exitbox,       \* exit() lambdas in flight to shard 0
    mainpc,        \* position of every shard in the loop of reactor::run
    ntasks,        \* tasks pending in the ordinary task queues of a shard
    ndestroy,      \* tasks pending in the at-exit queue of a shard
    sigFired,      \* signals whose handle_signal_once handler has fired
    assertsOn,     \* the build keeps assert() (no NDEBUG)
    aborted,       \* an assertion failed: the process is gone
    exitCalls,     \* history: number of exit() calls made
    ran,           \* history: the at-exit functions run, per reactor
    lastExit       \* history: <<shard, code>> of the last exit lambda run

stopVars == <<exit_funcs, stopping, stopped, retval, runs, inbox, ackbox,
              exitbox, mainpc, ntasks, ndestroy, sigFired, assertsOn, aborted,
              exitCalls, ran, lastExit>>

VARIABLES
    ipc,            \* where the main loop of reactor::run is
    idleTasks,      \* tasks queued; have_more_tasks() is idleTasks > 0
    pollWork,       \* poller -> an event is waiting for it
    interruptMode,  \* poller -> it is in interrupt mode
    sleepAt,        \* the poller reactor::sleep is at
    idle,           \* the local idle of reactor::run
    handlerAdded,   \* history: the idle-CPU handler queued a task since the
                    \* last check_for_work
    sleeping,       \* reactor::_sleeping
    calls           \* history: what the running or the last call of
                    \* reactor::sleep called on the pollers

idleVars == <<ipc, idleTasks, pollWork, interruptMode, sleepAt, idle,
              handlerAdded, sleeping, calls>>

VARIABLES
    bpc,              \* where every shard's thread is in the boot sequence
    reactors,         \* smp::_reactors[i] is set
    qsBuilt,          \* queues of smp::_qs constructed so far
    qsSawReactors,    \* history: every queue was constructed with every
                      \* shard's reactor registered
    queuesStarted,    \* shard -> the size of the grid when the shard called
                      \* start_all_queues, -1 before the call
    ioQueueAssigned,  \* shard -> assign_io_queue done
    arrived,          \* barrier -> the threads that called wait()
    bootExited,       \* _exit(1) was called
    loopSaw           \* history: shard -> when it went on to its loop every
                      \* shard had started its queues and assigned its I/O
                      \* queues

bootVars == <<bpc, reactors, qsBuilt, qsSawReactors, queuesStarted,
              ioQueueAssigned, arrived, bootExited, loopSaw>>

VARIABLES
    qpc,            \* "idle", or "batch" between pop_active_task_queue and
                    \* account_runtime
    qcur,           \* the queue whose batch is measured
    batchElapsed,   \* the time the tasks of the batch have run
    batchOwed,      \* history: the sum of r - task_quota over the tasks of
                    \* the batch that ran for r > 2 x task_quota
    violations,     \* task_queue::_time_spent_on_task_quota_violations
    lastDelta       \* history: the delta of the last batch accounted

quotaVars == <<qpc, qcur, batchElapsed, batchOwed, violations, lastDelta>>

VARIABLES
    nextRequest,    \* the id of the next request the client sends
    workerMailbox,  \* the requests waiting in the worker's mailbox
    clientMailbox,  \* the responses waiting in the client's mailbox
    awaited,        \* the requests the client awaits a response to
    workerAlive,    \* the worker has not terminated
    threwOn,        \* history: the requests whose handler threw
    successCalls,   \* history: the requests whose success handler ran
    errorCalls      \* history: request -> the error its error handler got

requestVars == <<nextRequest, workerMailbox, clientMailbox, awaited,
                 workerAlive, threwOn, successCalls, errorCalls>>

VARIABLES
    as_vruntime,    \* task_queue::_vruntime of every queue
    as_active,      \* task_queue::_active
    as_queues,      \* reactor::_active_task_queues
    as_current,     \* the queue pop_active_task_queue returned, being run
    as_order        \* history: the queues of the active set, in the order
                    \* they were inserted

activeSetVars == <<as_vruntime, as_active, as_queues, as_current, as_order>>

VARIABLES
    wk_mem,       \* memory as every core sees it: reactor::_sleeping of the
                  \* consumer, its _notify_eventfd, the write index of the
                  \* ring of every producer
    wk_buf,       \* core -> the stores it has issued that are not yet in
                  \* memory, oldest first
    wk_ridx,      \* producer -> the read index of its ring on the consumer
    wk_sent,      \* producer -> items pushed
    wk_ppc,       \* producer -> "idle", or "pushed" before maybe_wakeup
    wk_cpc,       \* where the consumer is
    wk_fenced     \* the cores the running systemwide barrier has reached

wakeVars == <<wk_mem, wk_buf, wk_ridx, wk_sent, wk_ppc, wk_cpc, wk_fenced>>

VARIABLES
    sd_pc,            \* where the reactor is: "loop", "batch" (between
                      \* start_task_run and end_task_run) or "asleep"
    sd_now,           \* std::chrono::steady_clock::now()
    sd_tasks,         \* reactor::_global_tasks_processed
    sd_last_seen,     \* cpu_stall_detector::_last_tasks_processed_seen
    sd_report_at,     \* cpu_stall_detector::_report_at
    sd_reported,      \* cpu_stall_detector::_reported
    sd_minute_mark,   \* cpu_stall_detector::_minute_mark
    sd_rearm_at,      \* cpu_stall_detector::_rearm_timer_at
    sd_armed,         \* the CPU-time timer _timer is armed
    sd_left,          \* CPU time left until _timer fires
    sd_detected,      \* history: stalls on_signal found since the minute
                      \* mark was last moved
    sd_generated,     \* history: calls of generate_trace since then
    sd_line,          \* history: the N of the "suppressed N backtraces"
                      \* line the step just taken wrote, 0 if it wrote none
    sd_did            \* history: what the step just taken did in on_signal

stallVars == <<sd_pc, sd_now, sd_tasks, sd_last_seen, sd_report_at,
               sd_reported, sd_minute_mark, sd_rearm_at, sd_armed, sd_left,
               sd_detected, sd_generated, sd_line, sd_did>>

VARIABLES
    pl_started,     \* reactor::run has constructed its pollers
    pl_tasks,       \* the registration and deregistration tasks queued, in order
    pl_pollers,     \* reactor::_pollers
    pl_user,        \* per poller made outside run(): "none", "pending", "registered", "gone"
    pl_calls,       \* the pollers the last poll_once called, in call order
    pl_results,     \* what each of them returned
    pl_work,        \* what that poll_once returned
    pl_did          \* the last step: "poll" or "other"

pollVars == <<pl_started, pl_tasks, pl_pollers, pl_user, pl_calls,
              pl_results, pl_work, pl_did>>

VARIABLES
    lf_state,       \* per poller object: "none", "pending", "registered", "destroyed"
    lf_tasks,       \* the queued registration and deregistration tasks, in order
    lf_list,        \* reactor::_pollers
    lf_iter,        \* 0, or the position poll_once is about to call
    lf_last,        \* the poller whose poll function the last step invoked
    lf_disposed,    \* per task object, how often it was freed
    lf_consumed,    \* the task objects run_tasks has taken from the queue
    lf_crashed      \* the process has crashed

lifeVars == <<lf_state, lf_tasks, lf_list, lf_iter, lf_last, lf_disposed,
              lf_consumed, lf_crashed>>

VARIABLES
    sg_bitmap,      \* s_used_scheduling_group_ids_bitmap, as the set of set bits
    sg_pc,          \* per caller: "idle", "loop", "init", "have", "destroy"
    sg_b,           \* per caller: b of allocate_scheduling_group_id
    sg_id,          \* per caller: the id of the group it creates, holds or destroys
    sg_queues,      \* per shard: the ids with a task queue, _task_queues[id]
    sg_todo,        \* per caller: the shards invoke_on_all has not run on yet
    sg_did          \* the last step: "none", "allocated", "failed", "retry", "freed"

sgVars == <<sg_bitmap, sg_pc, sg_b, sg_id, sg_queues, sg_todo, sg_did>>

VARIABLES
    io_pending,     \* io_sink::_pending_io, requests numbered in submission order
    io_next,        \* the number of the next request submitted
    io_consumed,    \* the requests the consumer took, in the order it took them
    io_offered,     \* the requests the last drain passed to consume, in order
    io_ret,         \* what the last drain returned
    io_did          \* the last step: "submit" or "drain"

sinkVars == <<io_pending, io_next, io_consumed, io_offered, io_ret, io_did>>

VARIABLES
    lr_armed,       \* timer<lowres_clock>::_armed
    lr_queued,      \* timer<lowres_clock>::_queued
    lr_is_expired,  \* timer<lowres_clock>::_expired
    lr_expiry,      \* timer<lowres_clock>::_expiry
    lr_period,      \* timer<lowres_clock>::_period, 0 for none
    lr_set,         \* reactor::_lowres_timers
    lr_exp,         \* reactor::_expired_lowres_timers
    lr_next,        \* reactor::_lowres_next_timeout
    lr_now,         \* lowres_clock::now()
    lr_pc           \* "idle", or "expiring" inside complete_timers

lowresVars == <<lr_armed, lr_queued, lr_is_expired, lr_expiry, lr_period,
                lr_set, lr_exp, lr_next, lr_now, lr_pc>>

VARIABLES
    xf_live,        \* live_cpus[cpu_id] of the owning CPU
    xf_head,        \* cpu_pages::xcpu_freelist, 0 for nullptr
    xf_nextp,       \* cross_cpu_free_item::next of each item
    xf_state,       \* each item: "held", "pushed", "free" or "leaked"
    xf_pc,          \* each remote CPU's position in free_cross_cpu
    xf_item,        \* the pointer a remote CPU is freeing
    xf_old,         \* the local `old` of free_cross_cpu
    xf_walk,        \* the local `p` of drain_cross_cpu_freelist
    xf_pushes,      \* pushes completed, per item
    xf_frees        \* calls of free(p) made by the owner, per item

xfreeVars == <<xf_live, xf_head, xf_nextp, xf_state, xf_pc, xf_item, xf_old,
               xf_walk, xf_pushes, xf_frees>>

VARIABLES
    sn_pending,     \* signals::_pending_signals, as the set of its bits
    sn_loaded,      \* the local `signals` of poll_signal, bits not handled yet
    sn_blocked,     \* signals the kernel holds back while all are masked
    sn_masked,      \* the thread's signal mask blocks every signal
    sn_pc,          \* "run", "clear", "handlers", "refused", "entered", "asleep"
    sn_entering,    \* poll_signal was called by try_enter_interrupt_mode
    sn_unhandled    \* signals delivered and no handler invocation since

signalVars == <<sn_pending, sn_loaded, sn_blocked, sn_masked, sn_pc,
                sn_entering, sn_unhandled>>

VARIABLES
    sa_ids,         \* select_any::ids_, once the requests are sent
    sa_started,     \* await / then / receive has installed the handlers
    sa_pending,     \* *pending, shared by the two handlers
    sa_left,        \* requests whose response has not arrived yet
    sa_ok,          \* requests answered with a result, in arrival order
    sa_failed,      \* requests answered with an error
    sa_results,     \* the requests whose result was passed to f, in order
    sa_errors       \* the errors passed to g, in order

selectVars == <<sa_ids, sa_started, sa_pending, sa_left, sa_ok, sa_failed,
                sa_results, sa_errors>>

\* what the actions of one component leave alone
notSmp == <<schedVars, timerVars, stopVars, idleVars,
            bootVars, quotaVars, requestVars,
            activeSetVars,
            wakeVars,
            stallVars,
            pollVars,
            lifeVars,
            sgVars,
            sinkVars,
            lowresVars,
            xfreeVars,
            signalVars,
            selectVars>>

notSched == <<smpVars, timerVars, stopVars, idleVars,
              bootVars, quotaVars, requestVars,
            activeSetVars,
            wakeVars,
            stallVars,
            pollVars,
            lifeVars,
            sgVars,
            sinkVars,
            lowresVars,
            xfreeVars,
            signalVars,
            selectVars>>

notTimer == <<smpVars, schedVars, stopVars, idleVars,
              bootVars, quotaVars, requestVars,
            activeSetVars,
            wakeVars,
            stallVars,
            pollVars,
            lifeVars,
            sgVars,
            sinkVars,
            lowresVars,
            xfreeVars,
            signalVars,
            selectVars>>

notStop == <<smpVars, schedVars, timerVars, idleVars,
             bootVars, quotaVars, requestVars,
            activeSetVars,
            wakeVars,
            stallVars,
            pollVars,
            lifeVars,
            sgVars,
            sinkVars,
            lowresVars,
            xfreeVars,
            signalVars,
            selectVars>>

notIdle == <<smpVars, schedVars, timerVars, stopVars,
             bootVars, quotaVars, requestVars,
            activeSetVars,
            wakeVars,
            stallVars,
            pollVars,
            lifeVars,
            sgVars,
            sinkVars,
            lowresVars,
            xfreeVars,
            signalVars,
            selectVars>>

notBoot == <<smpVars, schedVars, timerVars, stopVars,
             idleVars, quotaVars, requestVars,
            activeSetVars,
            wakeVars,
            stallVars,
            pollVars,
            lifeVars,
            sgVars,
            sinkVars,
            lowresVars,
            xfreeVars,
            signalVars,
            selectVars>>

notQuota == <<smpVars, schedVars, timerVars, stopVars,
              idleVars, bootVars, requestVars,
            activeSetVars,
            wakeVars,
            stallVars,
            pollVars,
            lifeVars,
            sgVars,
            sinkVars,
            lowresVars,
            xfreeVars,
            signalVars,
            selectVars>>

notRequest == <<smpVars, schedVars, timerVars, stopVars,
                idleVars, bootVars, quotaVars,
            activeSetVars,
            wakeVars,
            stallVars,
            pollVars,
            lifeVars,
            sgVars,
            sinkVars,
            lowresVars,
            xfreeVars,
            signalVars,
            selectVars>>

notActiveSet == <<smpVars, schedVars, timerVars, stopVars, idleVars, bootVars,
                   quotaVars, requestVars,
            wakeVars,
            stallVars,
            pollVars,
            lifeVars,
            sgVars,
            sinkVars,
            lowresVars,
            xfreeVars,
            signalVars,
            selectVars>>

notWake == <<smpVars, schedVars, timerVars, stopVars, idleVars, bootVars,
              quotaVars, requestVars, activeSetVars,
            stallVars,
            pollVars,
            lifeVars,
            sgVars,
            sinkVars,
            lowresVars,
            xfreeVars,
            signalVars,
            selectVars>>

notStall == <<smpVars, schedVars, timerVars, stopVars, idleVars, bootVars,
               quotaVars, requestVars, activeSetVars, wakeVars,
            pollVars,
            lifeVars,
            sgVars,
            sinkVars,
            lowresVars,
            xfreeVars,
            signalVars,
            selectVars>>

notPoll == <<smpVars, schedVars, timerVars, stopVars, idleVars, bootVars,
              quotaVars, requestVars, activeSetVars, wakeVars, stallVars,
            lifeVars,
            sgVars,
            sinkVars,
            lowresVars,
            xfreeVars,
            signalVars,
            selectVars>>

notLife == <<smpVars, schedVars, timerVars, stopVars, idleVars, bootVars,
              quotaVars, requestVars, activeSetVars, wakeVars, stallVars,
              pollVars,
            sgVars,
            sinkVars,
            lowresVars,
            xfreeVars,
            signalVars,
            selectVars>>

notSg == <<smpVars, schedVars, timerVars, stopVars, idleVars, bootVars,
            quotaVars, requestVars, activeSetVars, wakeVars, stallVars,
            pollVars, lifeVars,
            sinkVars,
            lowresVars,
            xfreeVars,
            signalVars,
            selectVars>>

notSink == <<smpVars, schedVars, timerVars, stopVars, idleVars, bootVars,
              quotaVars, requestVars, activeSetVars, wakeVars, stallVars,
              pollVars, lifeVars, sgVars,
            lowresVars,
            xfreeVars,
            signalVars,
            selectVars>>

notLowres == <<smpVars, schedVars, timerVars, stopVars, idleVars, bootVars,
                quotaVars, requestVars, activeSetVars, wakeVars, stallVars,
                pollVars, lifeVars, sgVars, sinkVars,
            xfreeVars,
            signalVars,
            selectVars>>

notXfree == <<smpVars, schedVars, timerVars, stopVars, idleVars, bootVars,
               quotaVars, requestVars, activeSetVars, wakeVars, stallVars,
               pollVars, lifeVars, sgVars, sinkVars, lowresVars,
            signalVars,
            selectVars>>

notSignal == <<smpVars, schedVars, timerVars, stopVars, idleVars, bootVars,
                quotaVars, requestVars, activeSetVars, wakeVars, stallVars,
                pollVars, lifeVars, sgVars, sinkVars, lowresVars, xfreeVars,
            selectVars>>

notSelect == <<smpVars, schedVars, timerVars, stopVars, idleVars, bootVars,
                quotaVars, requestVars, activeSetVars, wakeVars, stallVars,
                pollVars, lifeVars, sgVars, sinkVars, lowresVars, xfreeVars,
                signalVars>>

(***************************************************************************)
(* Cross-shard message queue: one ordered pair (producer shard i, consumer *)
(* shard j).  Work items are numbered in the order of the submit_item      *)
(* calls, so "submission order" is the numeric order of the payloads.      *)
(***************************************************************************)
\* capacity of the SPSC rings (queue_length, 128 in the program), scaled down
QueueLength == 2

\* batch_size (16 in the program), scaled down
BatchSize == 2

\* template argument of process_queue in process_incoming (prefetch_cnt)
PrefetchCnt == 2

\* number of submit_item calls explored
MaxItems == 5

\* units of the (service group, destination) semaphore
SemUnits == 3

\* boost::lockfree::spsc_queue::push(begin, end): the number of elements of
\* fifo that fit into the ring
PushCount(ring, fifo) == Min(Len(fifo), QueueLength - Len(ring))

\* smp_message_queue::move_pending: what is left in pending_fifo
MovePendingFifo(ring, fifo) ==
    IF PushCount(ring, fifo) = 0 THEN fifo ELSE Drop(fifo, PushCount(ring, fifo))

\* smp_message_queue::move_pending: the ring after the push
MovePendingRing(ring, fifo) == ring \o Take(fifo, PushCount(ring, fifo))

\* the continuation of submit_item once a unit was granted: push_back, then
\* move_pending when the batch is full.  Returns <<ring, fifo, partial>>.
SubmitGranted(ring, fifo, item) ==
    LET f1 == Append(fifo, item) IN
    IF Len(f1) >= BatchSize
    THEN <<MovePendingRing(ring, f1), MovePendingFifo(ring, f1),
           PushCount(ring, f1) > 0 /\ PushCount(ring, f1) < Len(f1)>>
    ELSE <<ring, f1, FALSE>>

\* smp_message_queue::submit_item
submit_item ==
    /\ nextItem <= MaxItems
    /\ nextItem' = nextItem + 1
    /\ IF semAvail > 0 /\ semWait = <<>>
       THEN LET r == SubmitGranted(pendingRing, pending_fifo, nextItem) IN
            /\ semAvail' = semAvail - 1
            /\ pendingRing' = r[1]
            /\ pending_fifo' = r[2]
            /\ partialPush' = (partialPush \/ r[3])
            /\ UNCHANGED semWait
       ELSE /\ semWait' = Append(semWait, nextItem)
            /\ UNCHANGED <<semAvail, pendingRing, pending_fifo, partialPush>>
    /\ UNCHANGED <<handled, inflight, completed_fifo, completedRing,
                   failedItems, deletedItems>>
    /\ UNCHANGED notSmp

\* mutant of submit_timeout: the return after fail_with is missing, so the
\* failed item is pushed to pending_fifo as well
submit_timeout_no_return ==
    \E k \in 1..Len(semWait) :
        /\ failedItems' = failedItems \cup {semWait[k]}
        /\ semWait' = RemoveAt(semWait, k)
        /\ pending_fifo' = Append(pending_fifo, semWait[k])
        /\ UNCHANGED <<nextItem, semAvail, pendingRing, handled,
                       inflight, completed_fifo, completedRing, deletedItems,
                       partialPush>>
    /\ UNCHANGED notSmp

\* submit_item, units_fut.failed(): the deadline of a waiting call elapsed
submit_timeout ==
    \E k \in 1..Len(semWait) :
        /\ failedItems' = failedItems \cup {semWait[k]}
        /\ semWait' = RemoveAt(semWait, k)
        /\ UNCHANGED <<nextItem, semAvail, pending_fifo, pendingRing, handled,
                       inflight, completed_fifo, completedRing, deletedItems,
                       partialPush>>
    /\ UNCHANGED notSmp

\* process_queue: the number of items one call consumes from ring q
ProcessCount(q, prefetch) ==
    IF q = <<>> THEN 0 ELSE 1 + Min(Len(q) - 1, QueueLength + prefetch)

\* mutant of ProcessOrder: handles the popped batch before the first item
ProcessOrderBatchFirst(q, prefetch) ==
    IF q = <<>> THEN <<>>
    ELSE SubSeq(q, 2, ProcessCount(q, prefetch)) \o <<q[1]>>

\* process_queue: the items in the order process() is called on them
ProcessOrder(q, prefetch) ==
    IF q = <<>> THEN <<>>
    ELSE <<q[1]>> \o SubSeq(q, 2, ProcessCount(q, prefetch))

\* smp_message_queue::flush_response_batch: <<ring, fifo>> afterwards
FlushResponse(ring, fifo) ==
    <<ring \o Take(fifo, PushCount(ring, fifo)), Drop(fifo, PushCount(ring, fifo))>>

\* consumer side of smp::poll_queues: flush_response_batch, process_incoming
poll_consumer ==
    LET fl == FlushResponse(completedRing, completed_fifo)
        got == ProcessOrder(pendingRing, PrefetchCnt) IN
    /\ completedRing' = fl[1]
    /\ completed_fifo' = fl[2]
    /\ handled' = handled \o got
    /\ inflight' = inflight \cup Range(got)
    /\ pendingRing' = Drop(pendingRing, ProcessCount(pendingRing, PrefetchCnt))
    /\ UNCHANGED <<nextItem, semAvail, semWait, pending_fifo, failedItems,
                   deletedItems, partialPush>>
    /\ UNCHANGED notSmp

\* smp_message_queue::respond, called when the work of an item is finished
respond ==
    \E it \in inflight :
        LET f1 == Append(completed_fifo, it)
            fl == FlushResponse(completedRing, f1) IN
        /\ inflight' = inflight \ {it}
        /\ IF Len(f1) >= BatchSize
           THEN completedRing' = fl[1] /\ completed_fifo' = fl[2]
           ELSE completed_fifo' = f1 /\ UNCHANGED completedRing
        /\ UNCHANGED <<nextItem, semAvail, semWait, pending_fifo, pendingRing,
                       handled, failedItems, deletedItems, partialPush>>
    /\ UNCHANGED notSmp

\* mutant of SignalUnits: process_completions does not signal
SignalUnitsNone(n, st) == st

\* the semaphore signals of process_completions, one per completed item: a
\* unit goes to the oldest waiting submit_item call, else back to the
\* semaphore.  st = <<semAvail, semWait, ring, fifo, partial>>
RECURSIVE SignalUnits(_, _)
SignalUnits(n, st) ==
    IF n = 0 THEN st
    ELSE IF st[2] = <<>>
         THEN SignalUnits(n - 1, <<st[1] + 1, st[2], st[3], st[4], st[5]>>)
         ELSE LET r == SubmitGranted(st[3], st[4], Head(st[2])) IN
              SignalUnits(n - 1, <<st[1], Tail(st[2]), r[1], r[2], st[5] \/ r[3]>>)

\* producer side of smp::poll_queues: flush_request_batch, process_completions
poll_producer ==
    LET fifo1 == IF pending_fifo = <<>> THEN pending_fifo
                 ELSE MovePendingFifo(pendingRing, pending_fifo)
        ring1 == IF pending_fifo = <<>> THEN pendingRing
                 ELSE MovePendingRing(pendingRing, pending_fifo)
        part1 == /\ PushCount(pendingRing, pending_fifo) > 0
                 /\ PushCount(pendingRing, pending_fifo) < Len(pending_fifo)
        nr    == ProcessCount(completedRing, 2 * PrefetchCnt)
        st    == SignalUnits(nr, <<semAvail, semWait, ring1, fifo1,
                                   partialPush \/ part1>>) IN
    /\ deletedItems' = deletedItems \cup Range(ProcessOrder(completedRing, 2 * PrefetchCnt))
    /\ completedRing' = Drop(completedRing, nr)
    /\ semAvail' = st[1]
    /\ semWait' = st[2]
    /\ pendingRing' = st[3]
    /\ pending_fifo' = st[4]
    /\ partialPush' = st[5]
    /\ UNCHANGED <<nextItem, handled, inflight, completed_fifo, failedItems>>
    /\ UNCHANGED notSmp


(***************************************************************************)
(* Task queues and the scheduler of one shard (reactor::run_some_tasks,    *)
(* run_tasks, activate, insert_active_task_queue, account_runtime).        *)
(* The tasks of a queue are anonymous, except for one task that is         *)
(* followed from add_task to run_and_dispose: the probe.                   *)
(***************************************************************************)
\* scheduling-group ids of the task queues of the scheduler model; 0 is "main"
SchedQueues == {0, 2}

\* the value of cur while no queue has _current set
NoQueue == 99

\* _max_task_backlog (default 1000), scaled down
MaxTaskBacklog == 1

\* longest task queue explored
MaxQueueLen == 3

\* the count of calls of reset_preemption_monitor stops here
MaxResets == 2

\* largest _vruntime explored
MaxVruntime == 2

\* longest measured batch, in clock ticks
MaxDelta == 9

\* width of the integers of to_vruntime (64 in the program), scaled down
WordBits == 5

\* the shift of to_vruntime (32 in the program), scaled down
VrShift == 2

RECURSIVE Pow2(_)
Pow2(n) == IF n = 0 THEN 1 ELSE 2 * Pow2(n - 1)

\* the signed integers of WordBits bits
Word == (-Pow2(WordBits - 1))..(Pow2(WordBits - 1) - 1)

\* arithmetic right shift
ShiftRight(x, n) == x \div Pow2(n)

\* task_queue::_shares of the queues of the model (set_shares clamps to >= 1)
Shares(q) == IF q = 2 THEN 2 ELSE 1

\* task_queue::set_shares: _reciprocal_shares_times_2_power_32
ReciprocalShares(q) == Pow2(VrShift) \div Max(Shares(q), 1)

\* the values the multiplication of to_vruntime may produce: the product, or,
\* when it overflows the signed word, any word (signed overflow is undefined)
Products(q, runtime) ==
    IF runtime * ReciprocalShares(q) \in Word
    THEN {runtime * ReciprocalShares(q)}
    ELSE Word

\* mutant of to_vruntime: the overflow check is missing
to_vruntime_unclamped(product) == ShiftRight(product, VrShift)

\* task_queue::to_vruntime, given the value of its multiplication
to_vruntime(product) == Max(ShiftRight(product, VrShift), 0)

\* the scheduler state as one record, for the operators below
SchedState == [q |-> tq_q, active |-> tq_active, vr |-> tq_vruntime,
               atq |-> active_task_queues, ing |-> activating_task_queues,
               last |-> last_vruntime]

\* mutant of less: queues of equal _vruntime compare as smaller
less_or_equal(st, a, b) == st.vr[a] <= st.vr[b]

\* task_queue::indirect_compare
less(st, a, b) == st.vr[a] < st.vr[b]

\* the while loop of insert_active_task_queue: the position at which a queue
\* pushed to the front of atq comes to rest
RECURSIVE BubblePos(_, _, _)
BubblePos(st, atq, i) ==
    IF i /= Len(atq) /\ ~less(st, atq[i], atq[i + 1])
    THEN BubblePos(st,
                   [atq EXCEPT ![i] = atq[i + 1], ![i + 1] = atq[i]], i + 1)
    ELSE atq

\* reactor::insert_active_task_queue
insert_active_task_queue(st, tq) ==
    LET atq == st.atq IN
    IF atq = <<>> \/ less(st, atq[Len(atq)], tq)
    THEN [st EXCEPT !.active[tq] = TRUE, !.atq = Append(atq, tq)]
    ELSE [st EXCEPT !.active[tq] = TRUE,
                    !.atq = BubblePos(st, <<tq>> \o atq, 1)]

\* reactor::insert_activating_task_queues
RECURSIVE InsertAll(_, _)
InsertAll(st, qs) ==
    IF qs = <<>> THEN st
    ELSE InsertAll(insert_active_task_queue(st, Head(qs)), Tail(qs))

insert_activating_task_queues(st) ==
    [InsertAll(st, st.ing) EXCEPT !.ing = <<>>]

\* mutant of activate: the queue keeps the vruntime it went to sleep with
activate_keeps_vruntime(st, tq) ==
    IF st.active[tq] THEN st
    ELSE [st EXCEPT !.ing = Append(st.ing, tq)]

\* mutant of activate: the queue is put at _last_vruntime, also from above
activate_at_last_vruntime(st, tq) ==
    IF st.active[tq] THEN st
    ELSE [st EXCEPT !.vr[tq] = st.last,
                    !.ing = Append(st.ing, tq)]

\* reactor::activate
activate(st, tq) ==
    IF st.active[tq] THEN st
    ELSE [st EXCEPT !.vr[tq] = Max(st.last, st.vr[tq]),
                    !.ing = Append(st.ing, tq)]

\* reactor::add_task: push_back, and activate when the queue was empty
add_task_to(st, tq, t) ==
    LET st1 == [st EXCEPT !.q[tq] = Append(st.q[tq], t)] IN
    IF st.q[tq] = <<>> THEN activate(st1, tq) ELSE st1

\* reactor::add_urgent_task: push_front, and activate when the queue was empty
add_urgent_task_to(st, tq, t) ==
    LET st1 == [st EXCEPT !.q[tq] = <<t>> \o st.q[tq]] IN
    IF st.q[tq] = <<>> THEN activate(st1, tq) ELSE st1

\* reactor::have_more_tasks
have_more_tasks(st) == Len(st.atq) + Len(st.ing) /= 0

ProbeQueued == \E q \in SchedQueues : "probe" \in Range(tq_q[q])

ProbeIn(st) == \E q \in SchedQueues : "probe" \in Range(st.q[q])

SetSched(st) ==
    /\ tq_q' = st.q
    /\ tq_active' = st.active
    /\ tq_vruntime' = st.vr
    /\ active_task_queues' = st.atq
    /\ activating_task_queues' = st.ing
    /\ last_vruntime' = st.last

\* the head of the do loop of run_some_tasks: insert_activating_task_queues,
\* pop_active_task_queue, _last_vruntime
PopNext(st) ==
    LET st1 == insert_activating_task_queues(st)
        tq  == Head(st1.atq) IN
    <<[st1 EXCEPT !.atq = Tail(st1.atq),
                  !.last = Max(st1.vr[tq], st1.last)], tq>>

\* the tasks a piece of user code may add: none, or one task with add_task or
\* add_urgent_task on some queue
Effects ==
    {<<"none", 0, "task">>} \cup
    {<<k, q, t>> : k \in {"add", "urgent"}, q \in SchedQueues,
                   t \in {"task", "probe"}}

EffectOk(st, e) ==
    \/ e[1] = "none"
    \/ /\ Len(st.q[e[2]]) < MaxQueueLen
       /\ e[3] = "probe" => (~ProbeIn(st) /\ e[1] = "add")

\* history: a task that add_task puts behind the waiting probe is "late"
Label(st, e) ==
    IF e[1] = "add" /\ e[3] = "task" /\ "probe" \in Range(st.q[e[2]])
    THEN "late" ELSE e[3]

ApplyEffect(st, e) ==
    IF e[1] = "add" THEN add_task_to(st, e[2], Label(st, e))
    ELSE IF e[1] = "urgent" THEN add_urgent_task_to(st, e[2], e[3])
    ELSE st

\* history: once the probe has run, no task is late any more
Settle(q) == [k \in 1..Len(q) |-> IF q[k] = "late" THEN "task" ELSE q[k]]

\* mutant of PopTask: the task at the back is taken
PopTaskFromBack(q) == <<q[Len(q)], SubSeq(q, 1, Len(q) - 1)>>

\* reactor::run_tasks: tasks.front() and tasks.pop_front(), as <<task, rest>>
PopTask(q) == <<Head(q), Tail(q)>>

\* an urgent task that is put ahead of the waiting probe
UrgentAhead(st, e) == e[1] = "urgent" /\ "probe" \in Range(st.q[e[2]])

\* add_task / add_urgent_task called outside run_tasks (a poller, a timer)
add_task ==
    /\ spc = "idle"
    /\ \E e \in Effects :
        /\ e[1] /= "none"
        /\ EffectOk(SchedState, e)
        /\ SetSched(ApplyEffect(SchedState, e))
        /\ excuse' = IF e[3] = "probe" THEN "none"
                     ELSE IF UrgentAhead(SchedState, e) THEN "urgent"
                     ELSE excuse
    /\ charged' = "none"
    /\ UNCHANGED maxCharge
    /\ longest' = FALSE
    /\ UNCHANGED <<need_preempt, spc, cur, ranTask, resets>>
    /\ UNCHANGED notSched

\* the task-quota timer (or request_preemption from a signal handler)
request_preemption ==
    /\ ~need_preempt
    /\ need_preempt' = TRUE
    /\ UNCHANGED <<tq_q, tq_active, tq_vruntime, active_task_queues,
                   activating_task_queues, last_vruntime, spc, cur, excuse,
                   ranTask, resets>>
    /\ charged' = "none"
    /\ UNCHANGED maxCharge
    /\ longest' = FALSE
    /\ UNCHANGED notSched

\* reactor::run_some_tasks up to the first run_tasks
run_some_tasks ==
    /\ spc = "idle"
    /\ have_more_tasks(SchedState)
    /\ LET r == PopNext(SchedState) IN
        /\ SetSched(r[1])
        /\ cur' = r[2]
    /\ need_preempt' = FALSE
    /\ spc' = "running"
    /\ ranTask' = FALSE
    /\ resets' = 0
    /\ charged' = "none"
    /\ UNCHANGED maxCharge
    /\ longest' = FALSE
    /\ UNCHANGED excuse
    /\ UNCHANGED notSched

\* mutant of AfterTask: the loop breaks whenever preemption is needed
AfterTaskBreaksOnPreempt(len, preempt) ==
    IF len = 0 THEN "empty"
    ELSE IF preempt THEN "break" ELSE "continue"

\* the end of one iteration of the loop of run_tasks, after the task ran:
\* "empty" (the loop ends), "break", "reset" (reset_preemption_monitor) or
\* "continue"
AfterTask(len, preempt) ==
    IF len = 0 THEN "empty"
    ELSE IF preempt
         THEN IF len <= MaxTaskBacklog THEN "break" ELSE "reset"
         ELSE "continue"

\* one iteration of the loop of reactor::run_tasks: the task at the front is
\* popped and run; the task may add a task and may request preemption
run_tasks ==
    /\ spc = "running"
    /\ \E e \in Effects, p \in BOOLEAN :
        LET t   == PopTask(tq_q[cur])[1]
            st1 == [SchedState EXCEPT
                       !.q[cur] = IF t = "probe"
                                  THEN Settle(PopTask(tq_q[cur])[2])
                                  ELSE PopTask(tq_q[cur])[2]]
            st2 == ApplyEffect(st1, e)
            np  == need_preempt \/ p
            how == AfterTask(Len(st2.q[cur]), np) IN
        /\ EffectOk(st1, e)
        /\ t = "probe" => e[3] /= "probe"
        /\ SetSched(st2)
        /\ need_preempt' = IF how = "reset" THEN FALSE ELSE np
        /\ spc' = IF how \in {"empty", "break"} THEN "finish" ELSE "running"
        /\ excuse' = IF t = "probe" \/ e[3] = "probe" THEN "none"
                     ELSE IF ~ProbeIn(st1) THEN excuse
                     ELSE IF UrgentAhead(st1, e) THEN "urgent"
                     ELSE IF excuse = "none" /\ how = "reset" THEN "backlog"
                     ELSE excuse
        /\ resets' = IF how = "reset" THEN Min(resets + 1, MaxResets)
                     ELSE resets
    /\ ranTask' = TRUE
    /\ charged' = "none"
    /\ UNCHANGED maxCharge
    /\ longest' = FALSE
    /\ UNCHANGED cur
    /\ UNCHANGED notSched

\* reactor::account_runtime: the state with the runtime charged to tq
account_runtime(st, tq, product) ==
    [st EXCEPT !.vr[tq] = st.vr[tq] + to_vruntime(product)]

\* mutant of Requeue: an emptied queue keeps its _active flag
RequeueKeepsActive(st, tq) ==
    IF st.q[tq] /= <<>> THEN insert_active_task_queue(st, tq) ELSE st

\* run_some_tasks after run_tasks: re-insert the queue or deactivate it
Requeue(st, tq) ==
    IF st.q[tq] /= <<>> THEN insert_active_task_queue(st, tq)
    ELSE [st EXCEPT !.active[tq] = FALSE]

\* the rest of an iteration of the do loop of run_some_tasks, after run_tasks
\* returned: account_runtime, re-insert or deactivate, and the loop condition
finish_batch ==
    /\ spc = "finish"
    /\ \E delta \in 0..MaxDelta : \E product \in Products(cur, delta) :
        LET st1 == Requeue(account_runtime(SchedState, cur, product), cur) IN
        /\ st1.vr[cur] <= MaxVruntime
        /\ maxCharge' = Max(maxCharge, to_vruntime(product))
        /\ longest' = (delta = MaxDelta)
        /\ charged' = IF delta * ReciprocalShares(cur) \in Word THEN "exact"
                      ELSE IF product < 0 THEN "clamped"
                      ELSE "wrapped"
        /\ excuse' = IF excuse /= "urgent" /\ ProbeQueued
                        /\ st1.vr[cur] = tq_vruntime[cur]
                     THEN "zero" ELSE excuse
        /\ IF have_more_tasks(st1) /\ ~need_preempt
           THEN /\ SetSched(PopNext(st1)[1])
                /\ cur' = PopNext(st1)[2]
                /\ spc' = "running"
           ELSE /\ SetSched(st1)
                /\ cur' = NoQueue
                /\ spc' = "idle"
    /\ ranTask' = FALSE
    /\ resets' = 0
    /\ UNCHANGED need_preempt
    /\ UNCHANGED notSched

InitSched ==
    /\ tq_q = [q \in SchedQueues |-> <<>>]
    /\ tq_active = [q \in SchedQueues |-> FALSE]
    /\ tq_vruntime = [q \in SchedQueues |-> 0]
    /\ active_task_queues = <<>>
    /\ activating_task_queues = <<>>
    /\ last_vruntime = 0
    /\ need_preempt = FALSE
    /\ spc = "idle"
    /\ cur = NoQueue
    /\ excuse = "none"
    /\ charged = "none"
    /\ maxCharge = 0
    /\ longest = FALSE
    /\ ranTask = FALSE
    /\ resets = 0

NextSched ==
    \/ add_task
    \/ request_preemption
    \/ run_some_tasks
    \/ run_tasks
    \/ finish_batch

(***************************************************************************)
(* Timers of one clock source: timer::arm / cancel / readd_periodic, the   *)
(* reactor's add_timer / queue_timer / del_timer and complete_timers.      *)
(* A period of 0 stands for "no period".                                   *)
(***************************************************************************)
\* number of timer objects
NumTimers == 2

\* last clock value explored
MaxNow == 3

\* longest period explored
MaxPeriod == 1

Timers == 1..NumTimers

TimerState == [armed |-> t_armed, queued |-> t_queued, expired |-> t_expired,
               expiry |-> t_expiry, period |-> t_period, set |-> timer_set,
               exp |-> expired_timers, unfired |-> unfired,
               inBatch |-> armedInBatch]

SetTimers(ts) ==
    /\ t_armed' = ts.armed
    /\ t_queued' = ts.queued
    /\ t_expired' = ts.expired
    /\ t_expiry' = ts.expiry
    /\ t_period' = ts.period
    /\ timer_set' = ts.set
    /\ expired_timers' = ts.exp
    /\ unfired' = ts.unfired
    /\ armedInBatch' = ts.inBatch

\* s without the elements equal to x
Without(s, x) == SelectSeq(s, LAMBDA y : y /= x)

\* timer::arm_state
arm_state(ts, t, until, period) ==
    [ts EXCEPT !.period[t] = period, !.armed[t] = TRUE, !.expired[t] = FALSE,
               !.expiry[t] = until, !.queued[t] = TRUE,
               !.unfired[t] = ts.unfired[t] + 1,
               !.inBatch = ts.inBatch \cup {t}]

\* reactor::queue_timer: timer_set::insert
queue_timer(ts, t) == [ts EXCEPT !.set = ts.set \cup {t}]

\* timer::arm: arm_state, then reactor::add_timer
timer_arm(ts, t, until, period) == queue_timer(arm_state(ts, t, until, period), t)

\* mutant of readd_periodic: the next deadline is counted from the last one
readd_periodic_from_deadline(ts, t, clock) ==
    queue_timer(arm_state(ts, t, ts.expiry[t] + ts.period[t], ts.period[t]), t)

\* timer::readd_periodic
readd_periodic(ts, t, clock) ==
    queue_timer(arm_state(ts, t, clock + ts.period[t], ts.period[t]), t)

\* mutant of del_timer: an expired timer is not taken off the expired list
del_timer_keeps_expired(ts, t) ==
    IF ts.expired[t] THEN [ts EXCEPT !.expired[t] = FALSE]
    ELSE [ts EXCEPT !.set = ts.set \ {t}]

\* reactor::del_timer
del_timer(ts, t) ==
    IF ts.expired[t]
    THEN [ts EXCEPT !.exp = Without(ts.exp, t), !.expired[t] = FALSE]
    ELSE [ts EXCEPT !.set = ts.set \ {t}]

\* mutant of timer_cancel: the timer is disarmed but stays where it is queued
timer_cancel_stays_queued(ts, t) ==
    IF ~ts.armed[t] THEN ts
    ELSE [ts EXCEPT !.armed[t] = FALSE, !.unfired[t] = 0]

\* timer::cancel
timer_cancel(ts, t) ==
    IF ~ts.armed[t] THEN ts
    ELSE LET ts1 == [ts EXCEPT !.armed[t] = FALSE, !.unfired[t] = 0] IN
         IF ts1.queued[t] THEN [del_timer(ts1, t) EXCEPT !.queued[t] = FALSE]
         ELSE ts1

\* timer::rearm: cancel, then arm
timer_rearm(ts, t, until, period) ==
    timer_arm(timer_cancel(ts, t), t, until, period)

\* what user code (outside or inside a callback) may do with the timers
TimerOps ==
    {<<"none", 1, 0, 0>>} \cup
    {<<"cancel", t, 0, 0>> : t \in Timers} \cup
    {<<k, t, d, p>> : k \in {"arm", "rearm"}, t \in Timers, d \in 0..MaxNow,
                      p \in 0..MaxPeriod}

\* arm() requires a timer that is not armed; cancel() and rearm() are tried on
\* armed ones
TimerOpOk(ts, op) ==
    \/ op[1] = "none"
    \/ op[1] \in {"cancel", "rearm"} /\ ts.armed[op[2]]
    \/ op[1] = "arm" /\ ~ts.armed[op[2]]

ApplyTimerOp(ts, op) ==
    IF op[1] = "cancel" THEN timer_cancel(ts, op[2])
    ELSE IF op[1] = "arm" THEN timer_arm(ts, op[2], op[3], op[4])
    ELSE IF op[1] = "rearm" THEN timer_rearm(ts, op[2], op[3], op[4])
    ELSE ts

\* the sequences timer_set::expire(now) may return: the due timers, in
\* deadline order
DueTimers(ts, clock) == {t \in ts.set : ts.expiry[t] <= clock}

Orderings(S) ==
    {s \in [1..Cardinality(S) -> S] : \A a, b \in 1..Cardinality(S) :
                                          a /= b => s[a] /= s[b]}

ExpireOrders(ts, clock) ==
    {s \in Orderings(DueTimers(ts, clock)) :
        \A a, b \in 1..Len(s) : a < b => ts.expiry[s[a]] <= ts.expiry[s[b]]}

\* user code outside complete_timers arms or cancels a timer
timer_op ==
    /\ tpc = "idle"
    /\ \E op \in TimerOps :
        /\ op[1] /= "none"
        /\ TimerOpOk(TimerState, op)
        /\ SetTimers(ApplyTimerOp(TimerState, op))
    /\ threwAt' = 0
    /\ cur_sg' = 0
    /\ prev_sg' = 0
    /\ UNCHANGED <<now, tpc, batchFired, cbSelf>>
    /\ UNCHANGED notTimer

\* the clock advances
clock_tick ==
    /\ now < MaxNow
    /\ now' = now + 1
    /\ UNCHANGED <<t_armed, t_queued, t_expired, t_expiry, t_period, timer_set,
                   expired_timers, tpc, unfired, batchFired,
                   armedInBatch, cbSelf>>
    /\ IF tpc = "idle"
       THEN threwAt' = 0 /\ cur_sg' = 0 /\ prev_sg' = 0
       ELSE UNCHANGED <<threwAt, cur_sg, prev_sg>>
    /\ UNCHANGED notTimer

\* timer::_sg: the scheduling group a timer's callback runs in
TimerSg(t) == 1

\* complete_timers, up to the loop: expire, and mark the batch as expired;
\* prev_sg is the group of whoever called (the poller, or a task of a queue)
complete_timers_expire ==
    /\ tpc = "idle"
    /\ DueTimers(TimerState, now) /= {}
    /\ \E g \in SchedQueues : cur_sg' = g /\ prev_sg' = g
    /\ threwAt' = 0
    /\ \E s \in ExpireOrders(TimerState, now) :
        SetTimers([TimerState EXCEPT
                     !.exp = s,
                     !.set = timer_set \ Range(s),
                     !.expired = [t \in Timers |->
                                     IF t \in Range(s) THEN TRUE ELSE t_expired[t]],
                     !.inBatch = {}])
    /\ tpc' = "expiring"
    /\ batchFired' = <<>>
    /\ UNCHANGED <<now, cbSelf>>
    /\ UNCHANGED notTimer

\* mutant of NextExpired: the loop takes the timers from the back of the list
NextExpiredFromBack(exp) == exp[Len(exp)]

\* complete_timers: the timer an iteration of the loop takes, begin()
NextExpired(exp) == Head(exp)

\* mutant of LoopGoesOn: an exception of a callback leaves complete_timers
LoopGoesOnUnlessThrown(threw) == ~threw

\* complete_timers: catch (...) around the callback logs the exception, and
\* the while loop goes on
LoopGoesOn(threw) == TRUE

\* complete_timers: the state of the popped timer t before its callback runs
FireState(ts, t, clock) ==
    LET ts1 == [ts EXCEPT !.exp = Without(ts.exp, t), !.queued[t] = FALSE] IN
    IF ~ts1.armed[t] THEN ts1
    ELSE LET ts2 == [ts1 EXCEPT !.armed[t] = FALSE] IN
         IF ts2.period[t] /= 0 THEN readd_periodic(ts2, t, clock) ELSE ts2

\* one iteration of the loop of complete_timers: the next expired timer is
\* popped and, when armed, re-added if periodic and its callback invoked; the
\* callback may arm or cancel a timer, and may throw.  After the last one
\* the loop ends and the scheduling group of the caller is restored.
complete_timers_fire ==
    /\ tpc = "expiring"
    /\ expired_timers /= <<>>
    /\ LET t   == NextExpired(expired_timers)
           ts1 == FireState(TimerState, t, now) IN
       \E cb \in TimerOps, threw \in BOOLEAN :
        /\ t_armed[t] \/ (cb[1] = "none" /\ ~threw)
        /\ TimerOpOk(ts1, cb)
        /\ LET ts2 == IF t_armed[t]
                      THEN ApplyTimerOp([ts1 EXCEPT !.unfired[t] = ts1.unfired[t] - 1], cb)
                      ELSE ts1 IN
            /\ SetTimers(ts2)
            /\ tpc' = IF ts2.exp = <<>> \/ ~LoopGoesOn(threw) THEN "idle"
                      ELSE "expiring"
            /\ cur_sg' = IF ~LoopGoesOn(threw) THEN TimerSg(t)
                         ELSE IF ts2.exp = <<>> THEN prev_sg
                         ELSE IF t_armed[t] THEN TimerSg(t)
                         ELSE cur_sg
        /\ batchFired' = IF t_armed[t] THEN Append(batchFired, t_expiry[t])
                         ELSE batchFired
        /\ cbSelf' = IF cb[1] /= "none" /\ cb[2] = t THEN cb[1] ELSE "none"
        /\ threwAt' = IF threw /\ threwAt = 0 THEN Len(batchFired) + 1
                      ELSE threwAt
    /\ UNCHANGED <<now, prev_sg>>
    /\ UNCHANGED notTimer

InitTimer ==
    /\ t_armed = [t \in Timers |-> FALSE]
    /\ t_queued = [t \in Timers |-> FALSE]
    /\ t_expired = [t \in Timers |-> FALSE]
    /\ t_expiry = [t \in Timers |-> 0]
    /\ t_period = [t \in Timers |-> 0]
    /\ timer_set = {}
    /\ expired_timers = <<>>
    /\ now = 0
    /\ tpc = "idle"
    /\ unfired = [t \in Timers |-> 0]
    /\ batchFired = <<>>
    /\ armedInBatch = {}
    /\ cbSelf = "none"
    /\ cur_sg = 0
    /\ prev_sg = 0
    /\ threwAt = 0

NextTimer ==
    \/ timer_op
    \/ clock_tick
    \/ complete_timers_expire
    \/ complete_timers_fire

(***************************************************************************)
(* Shutdown: reactor::at_exit, run_exit_tasks, stop, exit, the signal      *)
(* handlers installed by reactor::run, and the end of the loop of run.     *)
(* The task queues of a shard are reduced to the number of tasks pending   *)
(* in the ordinary queues and in the at-exit queue (_at_destroy_tasks).    *)
(***************************************************************************)
\* smp::count
NumShards == 2

\* at-exit functions a shard may register
NumExitFuncs == 2

\* exit() calls explored
MaxExitCalls == 2

\* tasks pending on a shard, per kind
MaxPending == 1

Shards == 0..(NumShards - 1)

\* the values exit() is called with
ExitCodes == {0, 3}

Signals == {"SIGINT", "SIGTERM"}

\* the shard still polls its queues and runs continuations
InLoop(s) == ~aborted /\ mainpc[s] = "running"

\* reactor::at_exit
at_exit ==
    \E r \in Shards :
        /\ InLoop(r)
        /\ ~stopping[r]
        /\ Len(exit_funcs[r]) < NumExitFuncs
        /\ exit_funcs' = [exit_funcs EXCEPT ![r] = Append(@, Len(@) + 1)]
        /\ UNCHANGED <<stopping, stopped, retval, runs, inbox, ackbox, exitbox,
                       mainpc, ntasks, ndestroy, sigFired, assertsOn, aborted,
                       exitCalls, ran, lastExit>>
    /\ UNCHANGED notStop

\* reactor::run_exit_tasks on reactor r: _stopping, and the new do_for_each
RunExitTasks(st, r, kind, origin) ==
    [st EXCEPT !.stopping[r] = TRUE,
               !.runs = Append(st.runs, [reactor |-> r, kind |-> kind,
                                         left |-> Len(exit_funcs[r]),
                                         state |-> "running",
                                         origin |-> origin, acks |-> 0])]

\* reactor::stop, called on reactor r by the thread of shard 0, after its
\* assert(_id == 0)
Stop(st, r) ==
    IF st.stopping[r] THEN st ELSE RunExitTasks(st, r, "stop", 0)

StopState == [stopping |-> stopping, runs |-> runs, retval |-> retval,
              aborted |-> aborted]

SetStop(st) ==
    /\ stopping' = st.stopping
    /\ runs' = st.runs
    /\ retval' = st.retval
    /\ aborted' = st.aborted

\* the lambda of reactor::exit, run by shard 0; `this` is the reactor exit()
\* was called on.  With assertions compiled in, stop() on a reactor other than
\* reactor 0 aborts the process.
ExitLambda(st, c, code) ==
    LET st1 == [st EXCEPT !.retval[c] = code] IN
    IF c /= 0 /\ assertsOn THEN [st1 EXCEPT !.aborted = TRUE]
    ELSE Stop(st1, c)

\* reactor::exit called on shard c: submit_to(0, ...) runs the lambda at once
\* on shard 0 and sends it to shard 0 from the other shards
exit_call ==
    \E c \in Shards, code \in ExitCodes :
        /\ InLoop(c)
        /\ exitCalls < MaxExitCalls
        /\ exitCalls' = exitCalls + 1
        /\ IF c = 0
           THEN /\ SetStop(ExitLambda(StopState, c, code))
                /\ lastExit' = <<c, code>>
                /\ UNCHANGED exitbox
           ELSE /\ exitbox' = Append(exitbox, <<c, code>>)
                /\ UNCHANGED <<stopping, runs, retval, aborted, lastExit>>
        /\ UNCHANGED <<exit_funcs, stopped, inbox, ackbox, mainpc, ntasks,
                       ndestroy, sigFired, assertsOn, ran>>
    /\ UNCHANGED notStop

\* shard 0 processes an exit lambda sent by another shard
exit_deliver ==
    /\ InLoop(0)
    /\ exitbox /= <<>>
    /\ SetStop(ExitLambda(StopState, Head(exitbox)[1], Head(exitbox)[2]))
    /\ lastExit' = Head(exitbox)
    /\ exitbox' = Tail(exitbox)
    /\ UNCHANGED <<exit_funcs, stopped, inbox, ackbox, mainpc, ntasks,
                   ndestroy, sigFired, assertsOn, exitCalls, ran>>
    /\ UNCHANGED notStop

\* SIGINT or SIGTERM on shard 0: the handle_signal_once handler calls stop()
signal_stop ==
    \E sig \in Signals \ sigFired :
        /\ InLoop(0)
        /\ sigFired' = sigFired \cup {sig}
        /\ SetStop(Stop(StopState, 0))
        /\ UNCHANGED <<exit_funcs, stopped, inbox, ackbox, exitbox, mainpc,
                       ntasks, ndestroy, assertsOn, exitCalls, ran, lastExit>>
    /\ UNCHANGED notStop

\* the shard whose thread runs the continuations of run i: stop() and its
\* continuations run on shard 0, the invoke_on_others lambda on its target
Runner(i) == IF runs[i].kind = "stop" THEN 0 ELSE runs[i].reactor

\* the requests invoke_on_others(0, ...) of run i adds to the inboxes
SendToOthers(i) ==
    [s \in Shards |-> IF s /= 0 THEN Append(inbox[s], i) ELSE inbox[s]]

\* one step of the do_for_each of run_exit_tasks: the next at-exit function,
\* in reverse order of registration, runs and either succeeds or fails.  After
\* the last one the continuation runs: stop() invokes run_exit_tasks on the
\* other shards, the invoke_on_others lambda sets _stopped and answers.
exit_func_step ==
    \E i \in 1..Len(runs), ok \in BOOLEAN :
        LET run == runs[i]
            r   == run.reactor
            fin == ok /\ run.left = 1 IN
        /\ InLoop(Runner(i))
        /\ run.state = "running"
        /\ run.left > 0
        /\ ran' = [ran EXCEPT ![r] = Append(@, exit_funcs[r][run.left])]
        /\ runs' = [runs EXCEPT ![i].left = run.left - 1,
                                ![i].state =
                                    IF ~ok THEN "failed"
                                    ELSE IF ~fin THEN "running"
                                    ELSE IF run.kind = "remote" THEN "done"
                                    ELSE IF NumShards = 1 THEN "done"
                                    ELSE "waiting",
                                ![i].acks =
                                    IF fin /\ run.kind = "stop"
                                    THEN NumShards - 1 ELSE 0]
        /\ inbox' = IF fin /\ run.kind = "stop" THEN SendToOthers(i) ELSE inbox
        /\ ackbox' = IF fin /\ run.kind = "remote"
                     THEN Append(ackbox, run.origin) ELSE ackbox
        /\ stopped' = IF fin /\ (run.kind = "remote" \/ NumShards = 1)
                      THEN [stopped EXCEPT ![r] = TRUE] ELSE stopped
        /\ UNCHANGED <<exit_funcs, stopping, retval, exitbox, mainpc, ntasks,
                       ndestroy, sigFired, assertsOn, aborted, exitCalls,
                       lastExit>>
    /\ UNCHANGED notStop

\* a shard other than 0 processes the invoke_on_others request: cleanup_cpu
\* and engine().run_exit_tasks()
remote_stop ==
    \E s \in Shards \ {0} :
        /\ InLoop(s)
        /\ inbox[s] /= <<>>
        /\ inbox' = [inbox EXCEPT ![s] = Tail(@)]
        /\ SetStop(RunExitTasks(StopState, s, "remote", Head(inbox[s])))
        /\ UNCHANGED <<exit_funcs, stopped, ackbox, exitbox, mainpc, ntasks,
                       ndestroy, sigFired, assertsOn, exitCalls, ran, lastExit>>
    /\ UNCHANGED notStop

\* shard 0 processes a completion; with the last one invoke_on_others is
\* resolved, the semaphore signalled and _stopped set on the stop()'s reactor
stop_ack ==
    /\ InLoop(0)
    /\ ackbox /= <<>>
    /\ LET i == Head(ackbox) IN
        /\ runs' = [runs EXCEPT ![i].acks = @ - 1,
                                ![i].state = IF runs[i].acks = 1 THEN "done" ELSE @]
        /\ stopped' = IF runs[i].acks = 1
                      THEN [stopped EXCEPT ![runs[i].reactor] = TRUE]
                      ELSE stopped
    /\ ackbox' = Tail(ackbox)
    /\ UNCHANGED <<exit_funcs, stopping, retval, inbox, exitbox, mainpc, ntasks,
                   ndestroy, sigFired, assertsOn, aborted, exitCalls, ran,
                   lastExit>>
    /\ UNCHANGED notStop

\* what a task does to the ordinary queues when it runs: it may add one task
Spawn(n, spawn) == IF spawn THEN n + 1 ELSE n

\* user code on a running shard: add_task, at_destroy, or a task runs
shard_work ==
    \E s \in Shards, what \in {"add_task", "at_destroy", "run"} :
        /\ InLoop(s)
        /\ CASE what = "add_task" ->
                  /\ ntasks[s] < MaxPending
                  /\ ntasks' = [ntasks EXCEPT ![s] = @ + 1]
                  /\ UNCHANGED ndestroy
             [] what = "at_destroy" ->
                  /\ ndestroy[s] < MaxPending
                  /\ ndestroy' = [ndestroy EXCEPT ![s] = @ + 1]
                  /\ UNCHANGED ntasks
             [] what = "run" ->
                  /\ ntasks[s] > 0
                  /\ \E spawn \in BOOLEAN :
                        ntasks' = [ntasks EXCEPT ![s] = Spawn(@ - 1, spawn)]
                  /\ UNCHANGED ndestroy
        /\ UNCHANGED <<exit_funcs, stopping, stopped, retval, runs, inbox,
                       ackbox, exitbox, mainpc, sigFired, assertsOn, aborted,
                       exitCalls, ran, lastExit>>
    /\ UNCHANGED notStop

\* reactor::run: after run_some_tasks the shard finds _stopped set
see_stopped ==
    \E s \in Shards :
        /\ InLoop(s)
        /\ stopped[s]
        /\ mainpc' = [mainpc EXCEPT ![s] = "draining"]
        /\ UNCHANGED <<exit_funcs, stopping, stopped, retval, runs, inbox,
                       ackbox, exitbox, ntasks, ndestroy, sigFired, assertsOn,
                       aborted, exitCalls, ran, lastExit>>
    /\ UNCHANGED notStop

\* reactor::run: while (have_more_tasks()) run_some_tasks()
drain_tasks ==
    \E s \in Shards, spawn \in BOOLEAN :
        /\ ~aborted
        /\ mainpc[s] = "draining"
        /\ ntasks[s] > 0
        /\ ntasks' = [ntasks EXCEPT ![s] = Spawn(@ - 1, spawn)]
        /\ UNCHANGED <<exit_funcs, stopping, stopped, retval, runs, inbox,
                       ackbox, exitbox, mainpc, ndestroy, sigFired, assertsOn,
                       aborted, exitCalls, ran, lastExit>>
    /\ UNCHANGED notStop

\* reactor::run: while (!_at_destroy_tasks->_q.empty()) run_tasks(...); a task
\* of the at-exit queue may add a task to an ordinary queue
run_at_destroy ==
    \E s \in Shards, spawn \in BOOLEAN :
        /\ ~aborted
        /\ \/ mainpc[s] = "draining" /\ ntasks[s] = 0
           \/ mainpc[s] = "destroying"
        /\ ndestroy[s] > 0
        /\ spawn => ntasks[s] < MaxPending
        /\ ndestroy' = [ndestroy EXCEPT ![s] = @ - 1]
        /\ ntasks' = [ntasks EXCEPT ![s] = Spawn(@, spawn)]
        /\ mainpc' = [mainpc EXCEPT ![s] = "destroying"]
        /\ UNCHANGED <<exit_funcs, stopping, stopped, retval, runs, inbox,
                       ackbox, exitbox, sigFired, assertsOn, aborted, exitCalls,
                       ran, lastExit>>
    /\ UNCHANGED notStop

\* reactor::run: _finished_running_tasks, smp::arrive_at_event_loop_end
leave_loop ==
    \E s \in Shards :
        /\ ~aborted
        /\ \/ mainpc[s] = "draining" /\ ntasks[s] = 0
           \/ mainpc[s] = "destroying"
        /\ ndestroy[s] = 0
        /\ mainpc' = [mainpc EXCEPT ![s] = "done"]
        /\ UNCHANGED <<exit_funcs, stopping, stopped, retval, runs, inbox,
                       ackbox, exitbox, ntasks, ndestroy, sigFired, assertsOn,
                       aborted, exitCalls, ran, lastExit>>
    /\ UNCHANGED notStop

\* the constructor, and reactor::run up to its loop: start_aio_eventfd_loop
\* registers the first at-exit function
InitStop ==
    /\ exit_funcs = [s \in Shards |-> <<1>>]
    /\ stopping = [s \in Shards |-> FALSE]
    /\ stopped = [s \in Shards |-> FALSE]
    /\ retval = [s \in Shards |-> 0]
    /\ runs = <<>>
    /\ inbox = [s \in Shards |-> <<>>]
    /\ ackbox = <<>>
    /\ exitbox = <<>>
    /\ mainpc = [s \in Shards |-> "running"]
    /\ ntasks = [s \in Shards |-> 0]
    /\ ndestroy = [s \in Shards |-> 0]
    /\ sigFired = {}
    /\ assertsOn \in BOOLEAN
    /\ aborted = FALSE
    /\ exitCalls = 0
    /\ ran = [s \in Shards |-> <<>>]
    /\ lastExit = <<>>

\* shutdown requests and their propagation; the shards have no tasks pending
NextStop ==
    \/ at_exit
    \/ exit_call
    \/ exit_deliver
    \/ signal_stop
    \/ exit_func_step
    \/ remote_stop
    \/ stop_ack
    \/ see_stopped
    \/ leave_loop

\* a shutdown by signal, with tasks pending on the shards
NextDrain ==
    \/ signal_stop
    \/ exit_func_step
    \/ remote_stop
    \/ stop_ack
    \/ shard_work
    \/ see_stopped
    \/ drain_tasks
    \/ run_at_destroy
    \/ leave_loop

(***************************************************************************)
(* The idle path of the main loop of reactor::run: check_for_work, the     *)
(* idle-CPU handler, reactor::sleep and the backend wait.  The task queues *)
(* are reduced to the number of tasks queued.                              *)
(***************************************************************************)
\* number of pollers
NumPollers == 3

\* most tasks queued
MaxIdleTasks == 2

Pollers == 1..NumPollers

\* no poller in interrupt mode
NoInterruptMode == [p \in Pollers |-> FALSE]

\* add_task called k times by a callback
Queued(n, k) == Min(n + k, MaxIdleTasks)

\* the kernel, a signal or another shard leaves work for a poller
event_arrives ==
    /\ \E p \in Pollers :
        /\ ~pollWork[p]
        /\ pollWork' = [pollWork EXCEPT ![p] = TRUE]
    /\ UNCHANGED <<ipc, idleTasks, interruptMode, sleepAt, idle, handlerAdded,
                   sleeping, calls>>
    /\ UNCHANGED notIdle

\* run_some_tasks at the top of the loop: tasks run, and may queue tasks
loop_run_tasks ==
    /\ ipc = "run"
    /\ \E n \in 0..MaxIdleTasks :
        /\ idleTasks = 0 => n = 0
        /\ idleTasks' = n
    /\ ipc' = "check"
    /\ calls' = <<>>
    /\ UNCHANGED <<pollWork, interruptMode, sleepAt, idle, handlerAdded,
                   sleeping>>
    /\ UNCHANGED notIdle

\* check_for_work(): poll_once() || have_more_tasks(); a poller that found
\* work may have queued tasks
check_for_work ==
    /\ ipc = "check"
    /\ \E k \in 0..1 :
        LET work == \E p \in Pollers : pollWork[p]
            n    == IF work THEN Queued(idleTasks, k) ELSE idleTasks IN
        /\ idleTasks' = n
        /\ pollWork' = [p \in Pollers |-> FALSE]
        /\ ipc' = IF work \/ n > 0 THEN "run" ELSE "handler"
        /\ idle' = ~(work \/ n > 0)
    /\ handlerAdded' = FALSE
    /\ UNCHANGED <<interruptMode, sleepAt, sleeping, calls>>
    /\ UNCHANGED notIdle

\* the else branch of the loop: _idle_cpu_handler(pure_check_for_work), which
\* is user code, then sleep() if it found no more work (or threw) and the
\* reactor has been idle for longer than _max_poll_time
idle_cpu_handler ==
    /\ ipc = "handler"
    /\ \E res \in {"no_more_work", "interrupted", "throws"}, k \in 0..1,
          long \in BOOLEAN, k2 \in 0..1 :
        LET go_to_sleep == res /= "interrupted"
            work == \E p \in Pollers : pollWork[p] IN
        /\ handlerAdded' = (k > 0)
        /\ IF go_to_sleep
           THEN /\ k2 = 0
                /\ idleTasks' = Queued(idleTasks, k)
                /\ ipc' = IF long THEN "sleep" ELSE "run"
                /\ UNCHANGED pollWork
           ELSE \* check_for_work(), the result unused
                /\ ~long
                /\ ~work => k2 = 0
                /\ idleTasks' = Queued(idleTasks, k + k2)
                /\ pollWork' = [p \in Pollers |-> FALSE]
                /\ ipc' = "run"
    /\ sleepAt' = 1
    /\ UNCHANGED <<interruptMode, idle, sleeping, calls>>
    /\ UNCHANGED notIdle

\* the poller registered first: smp_pollfn, whose interrupt mode is
\* reactor::_sleeping
SmpPoller == 1

\* mutant of ExitCalls: the pollers are left in the order they were entered
ExitCallsForward(n) == [k \in 1..n |-> <<"exit", k>>]

\* the rewind loop and the last loop of reactor::sleep: exit_interrupt_mode
\* on the first n pollers, the last one first
ExitCalls(n) == [k \in 1..n |-> <<"exit", n + 1 - k>>]

\* the pollers a sequence of exit_interrupt_mode calls leaves in interrupt
\* mode
AfterExits(mode, exits) ==
    [p \in Pollers |-> mode[p] /\ <<"exit", p>> \notin Range(exits)]

\* one iteration of the first loop of reactor::sleep:
\* try_enter_interrupt_mode of a poller, which refuses if it polls once more
\* and finds work, or for a reason of its own (busy: the memory barrier is
\* taken, the kernel cannot sleep, a timer is due), and then is not in
\* interrupt mode; a refusal rewinds the pollers before it
try_enter_interrupt_mode ==
    /\ ipc = "sleep"
    /\ \E k \in 0..1, busy \in BOOLEAN :
        IF pollWork[sleepAt] \/ busy
        THEN /\ pollWork' = [pollWork EXCEPT ![sleepAt] = FALSE]
             /\ pollWork[sleepAt] => ~busy
             /\ ~pollWork[sleepAt] => k = 0
             /\ idleTasks' = Queued(idleTasks, k)
             /\ interruptMode' = AfterExits(interruptMode,
                                             ExitCalls(sleepAt - 1))
             /\ sleeping' = (sleeping
                               /\ <<"exit", SmpPoller>>
                                     \notin Range(ExitCalls(sleepAt - 1)))
             /\ calls' = Append(calls, <<"refuse", sleepAt>>)
                             \o ExitCalls(sleepAt - 1)
             /\ ipc' = "run"
             /\ sleepAt' = 1
        ELSE /\ k = 0
             /\ interruptMode' = [interruptMode EXCEPT ![sleepAt] = TRUE]
             /\ sleeping' = (sleeping \/ sleepAt = SmpPoller)
             /\ calls' = Append(calls, <<"enter", sleepAt>>)
             /\ ipc' = IF sleepAt = NumPollers THEN "blocked" ELSE "sleep"
             /\ sleepAt' = IF sleepAt = NumPollers THEN 1 ELSE sleepAt + 1
             /\ UNCHANGED <<pollWork, idleTasks>>
    /\ UNCHANGED <<idle, handlerAdded>>
    /\ UNCHANGED notIdle

\* _backend->wait_and_process_events returns on an event; the second loop of
\* reactor::sleep leaves interrupt mode
wait_and_process_events ==
    /\ ipc = "blocked"
    /\ \E p \in Pollers : pollWork[p]
    /\ interruptMode' = AfterExits(interruptMode, ExitCalls(NumPollers))
    /\ sleeping' = (sleeping
                      /\ <<"exit", SmpPoller>>
                            \notin Range(ExitCalls(NumPollers)))
    /\ calls' = calls \o ExitCalls(NumPollers)
    /\ ipc' = "run"
    /\ UNCHANGED <<idleTasks, pollWork, sleepAt, idle, handlerAdded>>
    /\ UNCHANGED notIdle

InitIdle ==
    /\ ipc = "run"
    /\ idleTasks = 0
    /\ pollWork = [p \in Pollers |-> FALSE]
    /\ interruptMode = NoInterruptMode
    /\ sleepAt = 1
    /\ idle = FALSE
    /\ handlerAdded = FALSE
    /\ sleeping = FALSE
    /\ calls = <<>>

NextIdle ==
    \/ event_arrives
    \/ loop_run_tasks
    \/ check_for_work
    \/ idle_cpu_handler
    \/ try_enter_interrupt_mode
    \/ wait_and_process_events

(***************************************************************************)
(* Boot: smp::configure on shard 0 and the thread of every other shard,    *)
(* kept in step by the barriers reactors_registered,                       *)
(* smp_queues_constructed and inited.                                      *)
(***************************************************************************)
\* smp::count of the boot model
BootCount == 4

BootShards == 0..(BootCount - 1)

Barriers == {"reactors_registered", "smp_queues_constructed", "inited"}

\* mutant of BarrierOpen: the barrier lets a thread through as soon as
\* shard 0 has arrived
BarrierOpenForShard0(b) == 0 \in arrived[b]

\* boost::barrier(smp::count)::wait returns once smp::count threads arrived
BarrierOpen(b) == arrived[b] = BootShards

\* a thread arrives at barrier b
Arrive(b, s) == [arrived EXCEPT ![b] = @ \cup {s}]

\* shard 0: one iteration of the loop that calls create_thread
create_thread ==
    /\ ~bootExited
    /\ bpc[0] = "spawn"
    /\ \E i \in BootShards :
        /\ bpc[i] = "none"
        /\ \A j \in 1..(i - 1) : bpc[j] /= "none"
        /\ bpc' = [bpc EXCEPT ![i] = "init",
                              ![0] = IF i = BootCount - 1 THEN "init"
                                     ELSE "spawn"]
    /\ UNCHANGED <<reactors, qsBuilt, qsSawReactors, queuesStarted,
                   ioQueueAssigned, arrived, bootExited>>
    /\ UNCHANGED loopSaw
    /\ UNCHANGED notBoot

\* allocate_reactor, _reactors[i] = &engine(), alloc_io_queue, and the
\* arrival at reactors_registered; an exception ends the process (_exit)
allocate_reactor ==
    /\ ~bootExited
    /\ \E s \in BootShards, ok \in BOOLEAN :
        /\ bpc[s] = "init"
        /\ IF ok
           THEN /\ reactors' = [reactors EXCEPT ![s] = TRUE]
                /\ bpc' = [bpc EXCEPT ![s] = "reactors_registered"]
                /\ arrived' = Arrive("reactors_registered", s)
                /\ UNCHANGED bootExited
           ELSE /\ bootExited' = TRUE
                /\ UNCHANGED <<reactors, bpc, arrived>>
    /\ UNCHANGED <<qsBuilt, qsSawReactors, queuesStarted, ioQueueAssigned>>
    /\ UNCHANGED loopSaw
    /\ UNCHANGED notBoot

\* reactors_registered.wait() returns: shard 0 goes on to build smp::_qs,
\* the others to smp_queues_constructed.wait()
pass_reactors_registered ==
    /\ ~bootExited
    /\ BarrierOpen("reactors_registered")
    /\ \E s \in BootShards :
        /\ bpc[s] = "reactors_registered"
        /\ IF s = 0
           THEN /\ bpc' = [bpc EXCEPT ![s] = "build"]
                /\ UNCHANGED arrived
           ELSE /\ bpc' = [bpc EXCEPT ![s] = "smp_queues_constructed"]
                /\ arrived' = Arrive("smp_queues_constructed", s)
    /\ UNCHANGED <<reactors, qsBuilt, qsSawReactors, queuesStarted,
                   ioQueueAssigned, bootExited>>
    /\ UNCHANGED loopSaw
    /\ UNCHANGED notBoot

\* shard 0: one smp_message_queue(_reactors[j], _reactors[k]) of the grid;
\* after the last one, smp_queues_constructed.wait()
construct_queue ==
    /\ ~bootExited
    /\ bpc[0] = "build"
    /\ qsBuilt' = qsBuilt + 1
    /\ qsSawReactors' = (qsSawReactors /\ \A s \in BootShards : reactors[s])
    /\ IF qsBuilt + 1 = BootCount * BootCount
       THEN /\ bpc' = [bpc EXCEPT ![0] = "smp_queues_constructed"]
            /\ arrived' = Arrive("smp_queues_constructed", 0)
       ELSE UNCHANGED <<bpc, arrived>>
    /\ UNCHANGED <<reactors, queuesStarted, ioQueueAssigned, bootExited>>
    /\ UNCHANGED loopSaw
    /\ UNCHANGED notBoot

\* smp_queues_constructed.wait() returns, then start_all_queues()
start_all_queues ==
    /\ ~bootExited
    /\ BarrierOpen("smp_queues_constructed")
    /\ \E s \in BootShards :
        /\ bpc[s] = "smp_queues_constructed"
        /\ queuesStarted' = [queuesStarted EXCEPT ![s] = qsBuilt]
        /\ bpc' = [bpc EXCEPT ![s] = "assign"]
    /\ UNCHANGED <<reactors, qsBuilt, qsSawReactors, ioQueueAssigned, arrived,
                   bootExited>>
    /\ UNCHANGED loopSaw
    /\ UNCHANGED notBoot

\* assign_io_queue for every device, then the arrival at inited
assign_io_queue ==
    /\ ~bootExited
    /\ \E s \in BootShards :
        /\ bpc[s] = "assign"
        /\ ioQueueAssigned' = [ioQueueAssigned EXCEPT ![s] = TRUE]
        /\ bpc' = [bpc EXCEPT ![s] = "inited"]
        /\ arrived' = Arrive("inited", s)
    /\ UNCHANGED <<reactors, qsBuilt, qsSawReactors, queuesStarted, bootExited>>
    /\ UNCHANGED loopSaw
    /\ UNCHANGED notBoot

\* inited.wait() returns: engine().configure, and the shard goes on to its
\* loop (engine().run())
enter_loop ==
    /\ ~bootExited
    /\ BarrierOpen("inited")
    /\ \E s \in BootShards :
        /\ bpc[s] = "inited"
        /\ bpc' = [bpc EXCEPT ![s] = "run"]
        /\ loopSaw' = [loopSaw EXCEPT ![s] =
                          \A r \in BootShards :
                              queuesStarted[r] >= 0 /\ ioQueueAssigned[r]]
    /\ UNCHANGED <<reactors, qsBuilt, qsSawReactors, queuesStarted,
                   ioQueueAssigned, arrived, bootExited>>
    /\ UNCHANGED notBoot

InitBoot ==
    /\ bpc = [s \in BootShards |-> IF s = 0 THEN "spawn" ELSE "none"]
    /\ reactors = [s \in BootShards |-> FALSE]
    /\ qsBuilt = 0
    /\ qsSawReactors = TRUE
    /\ queuesStarted = [s \in BootShards |-> -1]
    /\ ioQueueAssigned = [s \in BootShards |-> FALSE]
    /\ arrived = [b \in Barriers |-> {}]
    /\ bootExited = FALSE
    /\ loopSaw = [s \in BootShards |-> TRUE]

NextBoot ==
    \/ create_thread
    \/ allocate_reactor
    \/ pass_reactors_registered
    \/ construct_queue
    \/ start_all_queues
    \/ assign_io_queue
    \/ enter_loop

(***************************************************************************)
(* Task-quota violations: the do loop of reactor::run_some_tasks measures  *)
(* every batch, and reactor::account_runtime charges the batches that ran  *)
(* for more than twice the task quota.  Times are in clock ticks.          *)
(***************************************************************************)
\* reactor::_task_quota
TaskQuota == 2

\* longest single task
MaxTaskRun == 6

\* longest batch
MaxBatchRun == 10

\* largest value of the counter explored
MaxViolations == 12

\* mutant of Violation: only the time beyond twice the quota is counted
ViolationBeyondTwice(runtime) ==
    IF runtime > 2 * TaskQuota THEN runtime - 2 * TaskQuota ELSE 0

\* reactor::account_runtime: what a batch of the given runtime adds to
\* _time_spent_on_task_quota_violations
Violation(runtime) ==
    IF runtime > 2 * TaskQuota THEN runtime - TaskQuota ELSE 0

\* run_some_tasks: a queue is popped and its batch starts at t_run_started
batch_start ==
    /\ qpc = "idle"
    /\ \E q \in SchedQueues : qcur' = q
    /\ qpc' = "batch"
    /\ batchElapsed' = 0
    /\ batchOwed' = 0
    /\ UNCHANGED <<violations, lastDelta>>
    /\ UNCHANGED notQuota

\* run_tasks: one task of the batch runs for r ticks
batch_task ==
    /\ qpc = "batch"
    /\ \E r \in 0..MaxTaskRun :
        /\ batchElapsed + r <= MaxBatchRun
        /\ batchElapsed' = batchElapsed + r
        /\ batchOwed' = batchOwed + IF r > 2 * TaskQuota THEN r - TaskQuota
                                   ELSE 0
    /\ UNCHANGED <<qpc, qcur, violations, lastDelta>>
    /\ UNCHANGED notQuota

\* run_some_tasks after run_tasks: delta = t_run_completed - t_run_started,
\* which is at least the time the tasks ran, and account_runtime(*tq, delta)
batch_account ==
    /\ qpc = "batch"
    /\ \E delta \in batchElapsed..MaxBatchRun :
        /\ violations[qcur] + Violation(delta) <= MaxViolations
        /\ violations' = [violations EXCEPT ![qcur] = @ + Violation(delta)]
        /\ lastDelta' = delta
    /\ qpc' = "idle"
    /\ UNCHANGED <<qcur, batchElapsed, batchOwed>>
    /\ UNCHANGED notQuota

InitQuota ==
    /\ qpc = "idle"
    /\ qcur = 0
    /\ batchElapsed = 0
    /\ batchOwed = 0
    /\ violations = [q \in SchedQueues |-> 0]
    /\ lastDelta = 0

NextQuota ==
    \/ batch_start
    \/ batch_task
    \/ batch_account

(***************************************************************************)
(* Requests between two actors, as exercised by the requester tests: a     *)
(* client sends requests to a worker whose handler may throw.  The message *)
(* layer itself (scheduled_actor, response_promise) is not part of the     *)
(* sources at hand and is modelled from its documented behaviour.          *)
(***************************************************************************)
\* number of requests the client sends
MaxRequests == 5

Requests == 1..MaxRequests

\* mutant of ExceptionResponse: the exception is swallowed and the handler's
\* default result is sent
ExceptionResponseAsValue(mid) == <<mid, "value", "int">>

\* scheduled_actor: an exception of a request handler is turned into an error
\* by the exception handler (sec::runtime_error by default) and delivered
\* through the response promise of the request
ExceptionResponse(mid) == <<mid, "error", "runtime_error">>

\* a request that reaches an actor that has terminated is bounced
BounceResponse(mid) == <<mid, "error", "request_receiver_down">>

\* the responses for a mailbox of requests that is closed
RECURSIVE Bounce(_)
Bounce(box) ==
    IF box = <<>> THEN <<>> ELSE <<BounceResponse(Head(box))>> \o Bounce(Tail(box))

\* the client: self->request(worker, infinite, 42).then([](int) {...})
request_send ==
    /\ nextRequest <= MaxRequests
    /\ nextRequest' = nextRequest + 1
    /\ awaited' = awaited \cup {nextRequest}
    /\ IF workerAlive
       THEN /\ workerMailbox' = Append(workerMailbox, nextRequest)
            /\ UNCHANGED clientMailbox
       ELSE /\ clientMailbox' = Append(clientMailbox, BounceResponse(nextRequest))
            /\ UNCHANGED workerMailbox
    /\ UNCHANGED <<workerAlive, threwOn, successCalls, errorCalls>>
    /\ UNCHANGED notRequest

\* the worker takes the next request; its handler returns a value or throws;
\* after an exception the worker terminates and its mailbox is closed
worker_consume ==
    /\ workerAlive
    /\ workerMailbox /= <<>>
    /\ \E throws \in BOOLEAN :
        LET mid == Head(workerMailbox) IN
        IF throws
        THEN /\ threwOn' = threwOn \cup {mid}
             /\ clientMailbox' = (clientMailbox \o <<ExceptionResponse(mid)>>)
                                     \o Bounce(Tail(workerMailbox))
             /\ workerMailbox' = <<>>
             /\ workerAlive' = FALSE
        ELSE /\ clientMailbox' = Append(clientMailbox, <<mid, "value", "int">>)
             /\ workerMailbox' = Tail(workerMailbox)
             /\ UNCHANGED <<threwOn, workerAlive>>
    /\ UNCHANGED <<nextRequest, awaited, successCalls, errorCalls>>
    /\ UNCHANGED notRequest

\* the client takes the next response: a value goes to the handler given to
\* then(), an error to the error handler
client_consume ==
    /\ clientMailbox /= <<>>
    /\ LET r == Head(clientMailbox) IN
        /\ clientMailbox' = Tail(clientMailbox)
        /\ awaited' = awaited \ {r[1]}
        /\ IF r[1] \in awaited /\ r[2] = "value"
           THEN /\ successCalls' = successCalls \cup {r[1]}
                /\ UNCHANGED errorCalls
           ELSE IF r[1] \in awaited
           THEN /\ errorCalls' = [errorCalls EXCEPT ![r[1]] = r[3]]
                /\ UNCHANGED successCalls
           ELSE UNCHANGED <<successCalls, errorCalls>>
    /\ UNCHANGED <<nextRequest, workerMailbox, workerAlive, threwOn>>
    /\ UNCHANGED notRequest

InitRequest ==
    /\ nextRequest = 1
    /\ workerMailbox = <<>>
    /\ clientMailbox = <<>>
    /\ awaited = {}
    /\ workerAlive = TRUE
    /\ threwOn = {}
    /\ successCalls = {}
    /\ errorCalls = [m \in Requests |-> "none"]

NextRequest ==
    \/ request_send
    \/ worker_consume
    \/ client_consume

(***************************************************************************)
(* The active set on its own, with more queues than the scheduler above:   *)
(* insert_active_task_queue for a queue that is not in it and             *)
(* pop_active_task_queue.  A queue changes its _vruntime only while it is  *)
(* out of the set: activate lifts an inactive queue, account_runtime       *)
(* charges the queue that was popped.                                      *)
(***************************************************************************)
\* number of task queues of the active-set model
SetQueueCount == 3

\* largest _vruntime of the active-set model
MaxSetVruntime == 2

SetQueues == 0..(SetQueueCount - 1)

\* the active set as a scheduler state; more: the popped queue has tasks left
ActiveSetState(more) ==
    [q |-> [x \in SetQueues |->
               IF x = as_current /\ more THEN <<"task">> ELSE <<>>],
     active |-> as_active, vr |-> as_vruntime, atq |-> as_queues]

\* activate on an inactive queue, which comes out with a _vruntime v no smaller
\* than its own, and the insert_active_task_queue that
\* insert_activating_task_queues does for it at the head of the loop of
\* run_some_tasks
set_activate ==
    /\ as_current = NoQueue
    /\ \E tq \in SetQueues, v \in 0..MaxSetVruntime :
        /\ ~as_active[tq]
        /\ v >= as_vruntime[tq]
        /\ LET st == insert_active_task_queue(
                        [ActiveSetState(FALSE) EXCEPT !.vr[tq] = v], tq) IN
            /\ as_vruntime' = st.vr
            /\ as_active' = st.active
            /\ as_queues' = st.atq
        /\ as_order' = Append(as_order, tq)
    /\ UNCHANGED as_current
    /\ UNCHANGED notActiveSet

\* reactor::pop_active_task_queue
set_pop ==
    /\ as_current = NoQueue
    /\ as_queues /= <<>>
    /\ as_current' = Head(as_queues)
    /\ as_queues' = Tail(as_queues)
    /\ as_order' = Without(as_order, Head(as_queues))
    /\ UNCHANGED <<as_vruntime, as_active>>
    /\ UNCHANGED notActiveSet

\* run_some_tasks after run_tasks: account_runtime brings the popped queue to
\* a _vruntime v no smaller than before, and the queue is re-inserted if it
\* has tasks left and deactivated if not
set_requeue ==
    /\ as_current /= NoQueue
    /\ \E v \in 0..MaxSetVruntime, more \in BOOLEAN :
        /\ v >= as_vruntime[as_current]
        /\ LET st == Requeue([ActiveSetState(more) EXCEPT
                                 !.vr[as_current] = v], as_current) IN
            /\ as_vruntime' = st.vr
            /\ as_active' = st.active
            /\ as_queues' = st.atq
        /\ as_order' = IF more THEN Append(as_order, as_current)
                       ELSE as_order
    /\ as_current' = NoQueue
    /\ UNCHANGED notActiveSet

InitActiveSet ==
    /\ as_vruntime = [q \in SetQueues |-> 0]
    /\ as_active = [q \in SetQueues |-> FALSE]
    /\ as_queues = <<>>
    /\ as_current = NoQueue
    /\ as_order = <<>>

NextActiveSet ==
    \/ set_activate
    \/ set_pop
    \/ set_requeue

(***************************************************************************)
(* Wake-up of a sleeping shard: producers push to their ring and call      *)
(* maybe_wakeup, the consumer goes to sleep through                        *)
(* smp_pollfn::try_enter_interrupt_mode.  The accesses to _sleeping are    *)
(* relaxed: every core has a buffer of stores that reach memory later, in  *)
(* the order issued.  Core 0 is the consumer.                              *)
(***************************************************************************)
\* producer shards of the wake-up model
NumProducers == 2

\* items a producer pushes
MaxWakeItems == 2

\* stores a core can have on their way to memory
MaxBuffered == 3

Producers == 1..NumProducers

\* the consumer shard
Consumer == 0

Cores == {Consumer} \cup Producers

\* memory after the store s
ApplyStore(mem, s) ==
    IF s[1] = "widx" THEN [mem EXCEPT !.widx[s[2]] = s[3]]
    ELSE IF s[1] = "sleeping" THEN [mem EXCEPT !.sleeping = s[3]]
    ELSE [mem EXCEPT !.notified = s[3]]

\* _sleeping.load(relaxed) on core c: its own latest store, or memory
LoadSleeping(c) ==
    LET own == SelectSeq(wk_buf[c], LAMBDA s : s[1] = "sleeping") IN
    IF own = <<>> THEN wk_mem.sleeping ELSE own[Len(own)][3]

\* core c issues the stores ss
Issue(c, ss) == [wk_buf EXCEPT ![c] = @ \o ss]

\* the store buffer of core c has room for n stores; a core whose buffer is
\* full waits
Room(c, n) == Len(wk_buf[c]) + n <= MaxBuffered

\* a store of a core reaches memory
wk_drain ==
    /\ \E c \in Cores :
        /\ wk_buf[c] /= <<>>
        /\ wk_mem' = ApplyStore(wk_mem, Head(wk_buf[c]))
        /\ wk_buf' = [wk_buf EXCEPT ![c] = Tail(@)]
    /\ UNCHANGED <<wk_ridx, wk_sent, wk_ppc, wk_cpc, wk_fenced>>
    /\ UNCHANGED notWake

\* smp_message_queue::move_pending up to _pending.push
wk_push ==
    /\ \E p \in Producers :
        /\ wk_ppc[p] = "idle"
        /\ wk_sent[p] < MaxWakeItems
        /\ Room(p, 1)
        /\ wk_buf' = Issue(p, <<<<"widx", p, wk_sent[p] + 1>>>>)
        /\ wk_sent' = [wk_sent EXCEPT ![p] = @ + 1]
        /\ wk_ppc' = [wk_ppc EXCEPT ![p] = "pushed"]
    /\ UNCHANGED <<wk_mem, wk_ridx, wk_cpc, wk_fenced>>
    /\ UNCHANGED notWake

\* mutant of SeesSleeping: the producer never finds the consumer sleeping
SeesSleepingNever(c) == FALSE

\* the test of maybe_wakeup
SeesSleeping(c) == LoadSleeping(c)

\* smp_message_queue::lf_queue::maybe_wakeup, with reactor::wakeup
wk_maybe_wakeup ==
    /\ \E p \in Producers :
        /\ wk_ppc[p] = "pushed"
        /\ Room(p, 2)
        /\ wk_buf' = IF SeesSleeping(p)
                     THEN Issue(p, <<<<"sleeping", 0, FALSE>>,
                                     <<"notified", 0, TRUE>>>>)
                     ELSE wk_buf
        /\ wk_ppc' = [wk_ppc EXCEPT ![p] = "idle"]
    /\ UNCHANGED <<wk_mem, wk_ridx, wk_sent, wk_cpc, wk_fenced>>
    /\ UNCHANGED notWake

\* smp_pollfn::poll finds an item in a ring
Raced(mem, ridx) == \E p \in Producers : mem.widx[p] > ridx[p]

\* smp_pollfn::poll from the loop of the reactor: the items are processed
wk_poll ==
    /\ wk_cpc = "run"
    /\ Raced(wk_mem, wk_ridx)
    /\ wk_ridx' = wk_mem.widx
    /\ UNCHANGED <<wk_mem, wk_buf, wk_sent, wk_ppc, wk_cpc, wk_fenced>>
    /\ UNCHANGED notWake

\* smp_pollfn::try_enter_interrupt_mode: _sleeping.store(true), and the
\* systemwide barrier is begun, or is found busy and the poller refuses
wk_set_sleeping ==
    /\ wk_cpc = "run"
    /\ Room(Consumer, 2)
    /\ \E busy \in BOOLEAN :
        IF busy
        THEN /\ wk_buf' = Issue(Consumer, <<<<"sleeping", 0, TRUE>>,
                                            <<"sleeping", 0, FALSE>>>>)
             /\ UNCHANGED wk_cpc
        ELSE /\ wk_buf' = Issue(Consumer, <<<<"sleeping", 0, TRUE>>>>)
             /\ wk_cpc' = "barrier"
    /\ wk_fenced' = {}
    /\ UNCHANGED <<wk_mem, wk_ridx, wk_sent, wk_ppc>>
    /\ UNCHANGED notWake

\* the systemwide barrier reaches a core, the calling core first: what the
\* core stored before is in memory
wk_fence ==
    /\ wk_cpc = "barrier"
    /\ \E c \in Cores \ wk_fenced :
        /\ c /= Consumer => Consumer \in wk_fenced
        /\ wk_buf[c] = <<>>
        /\ wk_fenced' = wk_fenced \cup {c}
    /\ UNCHANGED <<wk_mem, wk_buf, wk_ridx, wk_sent, wk_ppc, wk_cpc>>
    /\ UNCHANGED notWake

\* try_systemwide_memory_barrier has returned true; poll(), and on a race
\* _sleeping.store(false) and the poller refuses
wk_enter ==
    /\ wk_cpc = "barrier"
    /\ wk_fenced = Cores
    /\ Room(Consumer, 1)
    /\ IF Raced(wk_mem, wk_ridx)
       THEN /\ wk_ridx' = wk_mem.widx
            /\ wk_buf' = Issue(Consumer, <<<<"sleeping", 0, FALSE>>>>)
            /\ wk_cpc' = "run"
       ELSE /\ wk_cpc' = "entered"
            /\ UNCHANGED <<wk_ridx, wk_buf>>
    /\ UNCHANGED <<wk_mem, wk_sent, wk_ppc, wk_fenced>>
    /\ UNCHANGED notWake

\* the rest of reactor::sleep: a later poller refuses and smp_pollfn is
\* exited, or the reactor blocks in the backend
wk_block ==
    /\ wk_cpc = "entered"
    /\ Room(Consumer, 1)
    /\ \E refused \in BOOLEAN :
        IF refused
        THEN /\ wk_buf' = Issue(Consumer, <<<<"sleeping", 0, FALSE>>>>)
             /\ wk_cpc' = "run"
        ELSE /\ wk_cpc' = "blocked"
             /\ UNCHANGED wk_buf
    /\ UNCHANGED <<wk_mem, wk_ridx, wk_sent, wk_ppc, wk_fenced>>
    /\ UNCHANGED notWake

\* the backend returns, on the wake-up event, which it reads, or on another
\* event; smp_pollfn::exit_interrupt_mode
wk_wake ==
    /\ wk_cpc = "blocked"
    /\ Room(Consumer, 1)
    /\ \E other \in BOOLEAN :
        /\ wk_mem.notified \/ other
        /\ wk_mem.notified => ~other
    /\ wk_mem' = [wk_mem EXCEPT !.notified = FALSE]
    /\ wk_buf' = Issue(Consumer, <<<<"sleeping", 0, FALSE>>>>)
    /\ wk_cpc' = "run"
    /\ UNCHANGED <<wk_ridx, wk_sent, wk_ppc, wk_fenced>>
    /\ UNCHANGED notWake

InitWake ==
    /\ wk_mem = [sleeping |-> FALSE, notified |-> FALSE,
                 widx |-> [p \in Producers |-> 0]]
    /\ wk_buf = [c \in Cores |-> <<>>]
    /\ wk_ridx = [p \in Producers |-> 0]
    /\ wk_sent = [p \in Producers |-> 0]
    /\ wk_ppc = [p \in Producers |-> "idle"]
    /\ wk_cpc = "run"
    /\ wk_fenced = {}

NextWake ==
    \/ wk_drain
    \/ wk_push
    \/ wk_maybe_wakeup
    \/ wk_poll
    \/ wk_set_sleeping
    \/ wk_fence
    \/ wk_enter
    \/ wk_block
    \/ wk_wake

(***************************************************************************)
(* The stall detector of one shard: cpu_stall_detector::start_task_run,    *)
(* end_task_run, start_sleep, on_signal, maybe_report, report_suppressions *)
(* and arm_timer.  Time is counted in ticks; _timer counts the CPU time of *)
(* the thread and fires once.                                              *)
(***************************************************************************)
\* cpu_stall_detector::_threshold, in ticks
Threshold == 2

\* cpu_stall_detector::_slack, in ticks
Slack == 1

\* the 60s of report_suppressions, in ticks
Minute == 4

\* stall_detector_reports_per_minute
ReportsPerMinute == 1

\* the clock stops here
MaxStallNow == 9

\* tasks processed at most
MaxStallTasks == 2

\* mutant of ArmInterval: the timer is always armed at the base interval
ArmIntervalBase(report_at) == Threshold + Slack

\* cpu_stall_detector::arm_timer: the interval _timer is set to
ArmInterval(report_at) == Threshold * report_at + Slack

\* mutant of MayReport: one more report than the limit
MayReportOneMore(reported) == reported <= ReportsPerMinute

\* cpu_stall_detector::maybe_report: the test on _reported
MayReport(reported) == reported < ReportsPerMinute

\* cpu_stall_detector::report_suppressions: the minute has rolled over
RollsOver(t) == t > sd_minute_mark + Minute

\* the line report_suppressions writes at a roll-over, 0 for none
SuppressedLine ==
    IF sd_reported > ReportsPerMinute
    THEN sd_reported - ReportsPerMinute ELSE 0

\* time passes; the thread runs for that tick or does not, and while the
\* reactor is blocked it does not
sd_tick ==
    /\ sd_now < MaxStallNow
    /\ ~(sd_armed /\ sd_left = 0)
    /\ sd_now' = sd_now + 1
    /\ \E onCpu \in BOOLEAN :
        /\ sd_pc = "asleep" => ~onCpu
        /\ sd_left' = IF sd_armed /\ onCpu THEN sd_left - 1 ELSE sd_left
    /\ sd_line' = 0
    /\ sd_did' = "none"
    /\ UNCHANGED <<sd_pc, sd_tasks, sd_last_seen, sd_report_at, sd_reported,
                   sd_minute_mark, sd_rearm_at, sd_armed, sd_detected,
                   sd_generated>>
    /\ UNCHANGED notStall

\* run_some_tasks: cpu_stall_detector::start_task_run
sd_start_task_run ==
    /\ sd_pc = "loop"
    /\ sd_pc' = "batch"
    /\ IF sd_now > sd_rearm_at
       THEN /\ IF RollsOver(sd_now)
               THEN /\ sd_line' = SuppressedLine
                    /\ sd_reported' = 0
                    /\ sd_minute_mark' = sd_now
                    /\ sd_detected' = 0
                    /\ sd_generated' = 0
               ELSE /\ sd_line' = 0
                    /\ UNCHANGED <<sd_reported, sd_minute_mark, sd_detected,
                                   sd_generated>>
            /\ sd_report_at' = 1
            /\ sd_rearm_at' = sd_now + Threshold * 1
            /\ sd_armed' = TRUE
            /\ sd_left' = ArmInterval(1)
       ELSE /\ sd_line' = 0
            /\ UNCHANGED <<sd_reported, sd_minute_mark, sd_detected,
                           sd_generated, sd_report_at, sd_rearm_at, sd_armed,
                           sd_left>>
    /\ sd_last_seen' = sd_tasks
    /\ sd_did' = "none"
    /\ UNCHANGED <<sd_now, sd_tasks>>
    /\ UNCHANGED notStall

\* run_tasks: a task has run, ++_global_tasks_processed
sd_task ==
    /\ sd_pc = "batch"
    /\ sd_tasks < MaxStallTasks
    /\ sd_tasks' = sd_tasks + 1
    /\ sd_line' = 0
    /\ sd_did' = "none"
    /\ UNCHANGED <<sd_pc, sd_now, sd_last_seen, sd_report_at, sd_reported,
                   sd_minute_mark, sd_rearm_at, sd_armed, sd_left, sd_detected,
                   sd_generated>>
    /\ UNCHANGED notStall

\* run_some_tasks: cpu_stall_detector::end_task_run
sd_end_task_run ==
    /\ sd_pc = "batch"
    /\ sd_pc' = "loop"
    /\ sd_last_seen' = 0
    /\ sd_line' = 0
    /\ sd_did' = "none"
    /\ UNCHANGED <<sd_now, sd_tasks, sd_report_at, sd_reported, sd_minute_mark,
                   sd_rearm_at, sd_armed, sd_left, sd_detected, sd_generated>>
    /\ UNCHANGED notStall

\* reactor::run: cpu_stall_detector::start_sleep, then reactor::sleep
sd_start_sleep ==
    /\ sd_pc = "loop"
    /\ sd_pc' = "asleep"
    /\ sd_armed' = FALSE
    /\ sd_left' = 0
    /\ sd_rearm_at' = sd_now
    /\ sd_line' = 0
    /\ sd_did' = "none"
    /\ UNCHANGED <<sd_now, sd_tasks, sd_last_seen, sd_report_at, sd_reported,
                   sd_minute_mark, sd_detected, sd_generated>>
    /\ UNCHANGED notStall

\* reactor::sleep returns, at once or after a wait; end_sleep does nothing
sd_end_sleep ==
    /\ sd_pc = "asleep"
    /\ sd_pc' = "loop"
    /\ sd_line' = 0
    /\ sd_did' = "none"
    /\ UNCHANGED <<sd_now, sd_tasks, sd_last_seen, sd_report_at, sd_reported,
                   sd_minute_mark, sd_rearm_at, sd_armed, sd_left, sd_detected,
                   sd_generated>>
    /\ UNCHANGED notStall

\* _timer fires and reactor::block_notifier runs cpu_stall_detector::on_signal
sd_on_signal ==
    /\ sd_armed
    /\ sd_left = 0
    /\ IF sd_last_seen = 0
       THEN \* the stall detector is not active
            /\ sd_did' = "inactive"
            /\ sd_armed' = FALSE
            /\ UNCHANGED <<sd_last_seen, sd_report_at, sd_reported, sd_left,
                           sd_detected, sd_generated>>
       ELSE IF sd_last_seen = sd_tasks
       THEN \* no task was processed
            /\ sd_did' = "stall"
            /\ sd_generated' = IF MayReport(sd_reported)
                               THEN sd_generated + 1 ELSE sd_generated
            /\ sd_reported' = sd_reported + 1
            /\ sd_detected' = sd_detected + 1
            /\ sd_report_at' = 2 * sd_report_at
            /\ sd_armed' = TRUE
            /\ sd_left' = ArmInterval(2 * sd_report_at)
            /\ UNCHANGED sd_last_seen
       ELSE /\ sd_did' = "progress"
            /\ sd_last_seen' = sd_tasks
            /\ sd_armed' = TRUE
            /\ sd_left' = ArmInterval(sd_report_at)
            /\ UNCHANGED <<sd_report_at, sd_reported, sd_detected,
                           sd_generated>>
    /\ sd_line' = 0
    /\ UNCHANGED <<sd_pc, sd_now, sd_tasks, sd_minute_mark, sd_rearm_at>>
    /\ UNCHANGED notStall

InitStall ==
    /\ sd_pc = "loop"
    /\ sd_now = 0
    /\ sd_tasks = 0
    /\ sd_last_seen = 0
    /\ sd_report_at = 1
    /\ sd_reported = 0
    /\ sd_minute_mark = 0
    /\ sd_rearm_at = 0
    /\ sd_armed = FALSE
    /\ sd_left = 0
    /\ sd_detected = 0
    /\ sd_generated = 0
    /\ sd_line = 0
    /\ sd_did = "none"

NextStall ==
    \/ sd_tick
    \/ sd_start_task_run
    \/ sd_task
    \/ sd_end_task_run
    \/ sd_start_sleep
    \/ sd_end_sleep
    \/ sd_on_signal

(***************************************************************************)
(* The pollers of one shard: the pollers reactor::run constructs, their    *)
(* registration through tasks, reactor::poll_once.  A poller is            *)
(* <<"builtin", k>> (the k-th poller run() constructs), <<"user", u>> (one *)
(* constructed elsewhere) or <<"dummy", u>> (what ~poller leaves in place  *)
(* of a registered poller until its deregistration task has run).          *)
(* Destroying a poller whose registration task has not run yet is not part *)
(* of this model.                                                          *)
(***************************************************************************)
MaxUserPollers == 1

UserPollers == 1..MaxUserPollers

\* the pollfn types in the order reactor::run constructs them
RunPollers ==
    <<"smp_pollfn", "reap_kernel_completions_pollfn",
      "io_queue_submission_pollfn", "kernel_submit_work_pollfn",
      "reap_kernel_completions_pollfn", "batch_flush_pollfn",
      "execution_stage_pollfn", "syscall_pollfn",
      "drain_cross_cpu_freelist_pollfn", "lowres_timer_pollfn",
      "signal_pollfn">>

\* poller::do_register for each element of a sequence of pollers, in order
RECURSIVE do_register_all(_, _)
do_register_all(tasks, ps) ==
    IF ps = <<>> THEN tasks
    ELSE do_register_all(Append(tasks, [kind |-> "register", p |-> Head(ps)]),
                         Tail(ps))

register_poller_front(pollers, p) == <<p>> \o pollers

\* reactor::register_poller
register_poller(pollers, p) == Append(pollers, p)

\* reactor::unregister_poller: erase the first occurrence
RECURSIVE unregister_poller(_, _)
unregister_poller(pollers, p) ==
    IF pollers = <<>> THEN <<>>
    ELSE IF Head(pollers) = p THEN Tail(pollers)
    ELSE <<Head(pollers)>> \o unregister_poller(Tail(pollers), p)

\* reactor::replace_poller
replace_poller(pollers, old, neww) ==
    [n \in DOMAIN pollers |-> IF pollers[n] = old THEN neww ELSE pollers[n]]

\* pollfn::poll: the dummy poller of ~poller returns false, any other poller
\* what it finds
poll(p, found) == IF p[1] = "dummy" THEN FALSE ELSE found

\* reactor::poll_once, from position n on: work |= c->poll()
RECURSIVE poll_from(_, _, _, _)
poll_from(pollers, found, n, sofar) ==
    IF n > Len(pollers) THEN sofar
    ELSE poll_from(pollers, found, n + 1,
                   [calls   |-> Append(sofar.calls, pollers[n]),
                    results |-> Append(sofar.results, poll(pollers[n], found[n])),
                    work    |-> sofar.work \/ poll(pollers[n], found[n])])

\* what the pollers may find: nothing, work in one of them, work in all
Findings(n) ==
    {[m \in 1..n |-> FALSE], [m \in 1..n |-> TRUE]}
        \cup {[m \in 1..n |-> m = only] : only \in 1..n}

\* reactor::run up to its loop: the pollers are constructed, each queues its
\* registration task
pl_run ==
    /\ ~pl_started
    /\ pl_started' = TRUE
    /\ pl_tasks' = do_register_all(pl_tasks,
                       [k \in DOMAIN RunPollers |-> <<"builtin", k>>])
    /\ pl_calls' = <<>>
    /\ pl_results' = <<>>
    /\ pl_did' = "other"
    /\ UNCHANGED <<pl_pollers, pl_user, pl_work>>
    /\ UNCHANGED notPoll

\* a poller is constructed outside reactor::run
pl_make_poller ==
    /\ \E u \in UserPollers :
        /\ pl_user[u] = "none"
        /\ pl_user' = [pl_user EXCEPT ![u] = "pending"]
        /\ pl_tasks' = do_register_all(pl_tasks, << <<"user", u>> >>)
    /\ pl_calls' = <<>>
    /\ pl_results' = <<>>
    /\ pl_did' = "other"
    /\ UNCHANGED <<pl_started, pl_pollers, pl_work>>
    /\ UNCHANGED notPoll

\* poller::~poller of a registered poller
pl_destroy_poller ==
    /\ pl_started
    /\ \E u \in UserPollers :
        /\ pl_user[u] = "registered"
        /\ pl_user' = [pl_user EXCEPT ![u] = "gone"]
        /\ pl_tasks' = Append(pl_tasks,
                              [kind |-> "deregister", p |-> <<"dummy", u>>])
        /\ pl_pollers' = replace_poller(pl_pollers, <<"user", u>>,
                                        <<"dummy", u>>)
    /\ pl_calls' = <<>>
    /\ pl_results' = <<>>
    /\ pl_did' = "other"
    /\ UNCHANGED <<pl_started, pl_work>>
    /\ UNCHANGED notPoll

\* run_tasks runs the next task: registration_task::run_and_dispose or
\* deregistration_task::run_and_dispose
pl_run_task ==
    /\ pl_started
    /\ pl_tasks /= <<>>
    /\ LET t == Head(pl_tasks)
       IN  /\ pl_pollers' = IF t.kind = "register"
                            THEN register_poller(pl_pollers, t.p)
                            ELSE unregister_poller(pl_pollers, t.p)
           /\ pl_user' = IF t.kind = "register" /\ t.p[1] = "user"
                         THEN [pl_user EXCEPT ![t.p[2]] = "registered"]
                         ELSE pl_user
    /\ pl_tasks' = Tail(pl_tasks)
    /\ pl_calls' = <<>>
    /\ pl_results' = <<>>
    /\ pl_did' = "other"
    /\ UNCHANGED <<pl_started, pl_work>>
    /\ UNCHANGED notPoll

\* reactor::poll_once
pl_poll_once ==
    /\ pl_started
    /\ \E found \in Findings(Len(pl_pollers)) :
        LET done == poll_from(pl_pollers, found, 1,
                        [calls |-> <<>>, results |-> <<>>, work |-> FALSE])
        IN  /\ pl_calls' = done.calls
            /\ pl_results' = done.results
            /\ pl_work' = done.work
    /\ pl_did' = "poll"
    /\ UNCHANGED <<pl_started, pl_tasks, pl_pollers, pl_user>>
    /\ UNCHANGED notPoll

InitPoll ==
    /\ pl_started = FALSE
    /\ pl_tasks = <<>>
    /\ pl_pollers = <<>>
    /\ pl_user = [u \in UserPollers |-> "none"]
    /\ pl_calls = <<>>
    /\ pl_results = <<>>
    /\ pl_work = FALSE
    /\ pl_did = "other"

NextPoll ==
    \/ pl_run
    \/ pl_make_poller
    \/ pl_destroy_poller
    \/ pl_run_task
    \/ pl_poll_once

(***************************************************************************)
(* The life of a poller object and of its tasks: poller::do_register,      *)
(* poller::~poller, registration_task and deregistration_task, and         *)
(* poll_once calling the poll functions one by one, each of which may      *)
(* construct or destroy pollers.  A task object is <<kind, p>>.            *)
(***************************************************************************)
NumLifePollers == 2

LifePollers == 1..NumLifePollers

NoCall == <<"none", 0>>

TaskObjects == {"register", "deregister"} \X LifePollers

\* freeing a task object that is still in the queue leaves the queue's
\* pointer dangling
MarkFreed(tasks, id) ==
    [n \in DOMAIN tasks |->
        IF <<tasks[n].kind, tasks[n].p>> = id
        THEN [tasks[n] EXCEPT !.freed = TRUE] ELSE tasks[n]]

\* what run_and_dispose of a registration task that was deleted while queued
\* can do: find _p null as cancel() left it, find _p as it was before
\* cancel() (the store into an object about to be deleted may be dropped),
\* or crash
FreedTaskOutcomes == {"null", "stale", "crash"}

\* poller::poller, do_register
lf_make ==
    /\ ~lf_crashed
    /\ \E p \in LifePollers :
        /\ lf_state[p] = "none"
        /\ lf_state' = [lf_state EXCEPT ![p] = "pending"]
        /\ lf_tasks' = Append(lf_tasks,
                          [kind |-> "register", p |-> p, freed |-> FALSE])
    /\ lf_last' = NoCall
    /\ UNCHANGED <<lf_list, lf_iter, lf_disposed, lf_consumed, lf_crashed>>
    /\ UNCHANGED notLife

\* poller::~poller, before _finished_running_tasks
lf_destroy ==
    /\ ~lf_crashed
    /\ \E p \in LifePollers :
        /\ lf_state[p] \in {"pending", "registered"}
        /\ lf_state' = [lf_state EXCEPT ![p] = "destroyed"]
        /\ IF lf_state[p] = "pending"
           THEN \* _registration_task->cancel(); delete _registration_task
                /\ lf_tasks' = MarkFreed(lf_tasks, <<"register", p>>)
                /\ lf_disposed' = [lf_disposed EXCEPT ![<<"register", p>>] = @ + 1]
                /\ UNCHANGED lf_list
           ELSE /\ lf_tasks' = Append(lf_tasks,
                                 [kind |-> "deregister", p |-> p, freed |-> FALSE])
                /\ lf_list' = replace_poller(lf_list, <<"user", p>>,
                                             <<"dummy", p>>)
                /\ UNCHANGED lf_disposed
    /\ lf_last' = NoCall
    /\ UNCHANGED <<lf_iter, lf_consumed, lf_crashed>>
    /\ UNCHANGED notLife

\* run_tasks takes the front task and calls run_and_dispose
lf_run_task ==
    /\ ~lf_crashed
    /\ lf_iter = 0
    /\ lf_tasks /= <<>>
    /\ LET t == Head(lf_tasks)
           id == <<t.kind, t.p>>
       IN  /\ lf_consumed' = lf_consumed \cup {id}
           /\ IF t.freed
              THEN \E outcome \in FreedTaskOutcomes :
                    /\ lf_crashed' = (outcome = "crash")
                    /\ lf_list' = IF outcome = "stale"
                                  THEN register_poller(lf_list, <<"user", t.p>>)
                                  ELSE lf_list
                    /\ lf_disposed' = IF outcome = "crash" THEN lf_disposed
                                      ELSE [lf_disposed EXCEPT ![id] = 2]
                    /\ UNCHANGED lf_state
              ELSE IF t.kind = "register"
              THEN \* registration_task::run_and_dispose: _p is set
                   /\ lf_list' = register_poller(lf_list, <<"user", t.p>>)
                   /\ lf_state' = [lf_state EXCEPT ![t.p] = "registered"]
                   /\ lf_disposed' = [lf_disposed EXCEPT ![id] = @ + 1]
                   /\ UNCHANGED lf_crashed
              ELSE \* deregistration_task::run_and_dispose
                   /\ lf_list' = unregister_poller(lf_list, <<"dummy", t.p>>)
                   /\ lf_disposed' = [lf_disposed EXCEPT ![id] = @ + 1]
                   /\ UNCHANGED <<lf_state, lf_crashed>>
    /\ lf_tasks' = Tail(lf_tasks)
    /\ lf_last' = NoCall
    /\ UNCHANGED lf_iter
    /\ UNCHANGED notLife

\* reactor::poll_once: the next c->poll()
lf_poll_next ==
    /\ ~lf_crashed
    /\ lf_list /= <<>>
    /\ LET n == IF lf_iter = 0 THEN 1 ELSE lf_iter
       IN  /\ lf_last' = lf_list[n]
           /\ lf_iter' = IF n < Len(lf_list) THEN n + 1 ELSE 0
    /\ UNCHANGED <<lf_state, lf_tasks, lf_list, lf_disposed, lf_consumed,
                   lf_crashed>>
    /\ UNCHANGED notLife

InitLife ==
    /\ lf_state = [p \in LifePollers |-> "none"]
    /\ lf_tasks = <<>>
    /\ lf_list = <<>>
    /\ lf_iter = 0
    /\ lf_last = NoCall
    /\ lf_disposed = [id \in TaskObjects |-> 0]
    /\ lf_consumed = {}
    /\ lf_crashed = FALSE

NextLife ==
    \/ lf_make
    \/ lf_destroy
    \/ lf_run_task
    \/ lf_poll_next

(***************************************************************************)
(* Scheduling-group ids: allocate_scheduling_group_id,                     *)
(* deallocate_scheduling_group_id, create_scheduling_group and             *)
(* destroy_scheduling_group called by several fibers on any shards.        *)
(***************************************************************************)
NumSgCallers == 3

MaxSchedulingGroups == 4

SgShardCount == 2

SgCallers == 1..NumSgCallers

SgShards == 1..SgShardCount

\* the bits of the bitmap the model keeps
SgBits == 0..MaxSchedulingGroups

\* static std::atomic<unsigned long> s_used_scheduling_group_ids_bitmap {3}
SgReserved == {0, 1}

\* count_trailing_zeros(~b)
FirstClear(bits) == CHOOSE n \in SgBits \ bits : \A m \in SgBits \ bits : n <= m

StoreAlways(seen, expected) == TRUE

\* compare_exchange_weak stores only if the bitmap still is what was loaded
MayStore(seen, expected) == seen = expected

\* allocate_scheduling_group_id: the load
sg_load ==
    /\ \E clr \in SgCallers :
        /\ sg_pc[clr] = "idle"
        /\ sg_pc' = [sg_pc EXCEPT ![clr] = "loop"]
        /\ sg_b' = [sg_b EXCEPT ![clr] = sg_bitmap]
    /\ sg_did' = "none"
    /\ UNCHANGED <<sg_bitmap, sg_id, sg_queues, sg_todo>>
    /\ UNCHANGED notSg

\* allocate_scheduling_group_id: one turn of the loop; create_scheduling_group
\* fails, or goes on to invoke_on_all
sg_try ==
    /\ \E clr \in SgCallers, spurious \in BOOLEAN :
        /\ sg_pc[clr] = "loop"
        /\ IF Cardinality(sg_b[clr]) = MaxSchedulingGroups
           THEN /\ sg_pc' = [sg_pc EXCEPT ![clr] = "idle"]
                /\ sg_did' = "failed"
                /\ UNCHANGED <<sg_bitmap, sg_b, sg_id, sg_todo>>
           ELSE IF MayStore(sg_bitmap, sg_b[clr]) /\ ~spurious
           THEN /\ sg_bitmap' = sg_b[clr] \cup {FirstClear(sg_b[clr])}
                /\ sg_id' = [sg_id EXCEPT ![clr] = FirstClear(sg_b[clr])]
                /\ sg_pc' = [sg_pc EXCEPT ![clr] = "init"]
                /\ sg_todo' = [sg_todo EXCEPT ![clr] = SgShards]
                /\ sg_did' = "allocated"
                /\ UNCHANGED sg_b
           ELSE /\ sg_b' = [sg_b EXCEPT ![clr] = sg_bitmap]
                /\ sg_did' = "retry"
                /\ UNCHANGED <<sg_bitmap, sg_pc, sg_id, sg_todo>>
    /\ UNCHANGED sg_queues
    /\ UNCHANGED notSg

\* create_scheduling_group: reactor::init_scheduling_group on one shard; the
\* future resolves when all shards are done
sg_init ==
    /\ \E clr \in SgCallers :
        /\ sg_pc[clr] = "init"
        /\ \E sh \in sg_todo[clr] :
            /\ sg_queues' = [sg_queues EXCEPT ![sh] = @ \cup {sg_id[clr]}]
            /\ sg_todo' = [sg_todo EXCEPT ![clr] = @ \ {sh}]
            /\ sg_pc' = [sg_pc EXCEPT ![clr] =
                            IF sg_todo[clr] = {sh} THEN "have" ELSE "init"]
    /\ sg_did' = "none"
    /\ UNCHANGED <<sg_bitmap, sg_b, sg_id>>
    /\ UNCHANGED notSg

\* destroy_scheduling_group is called on a group the caller holds
sg_destroy ==
    /\ \E clr \in SgCallers :
        /\ sg_pc[clr] = "have"
        /\ sg_pc' = [sg_pc EXCEPT ![clr] = "destroy"]
        /\ sg_todo' = [sg_todo EXCEPT ![clr] = SgShards]
    /\ sg_did' = "none"
    /\ UNCHANGED <<sg_bitmap, sg_b, sg_id, sg_queues>>
    /\ UNCHANGED notSg

\* destroy_scheduling_group: reactor::destroy_scheduling_group on one shard;
\* after the last one, deallocate_scheduling_group_id
sg_destroy_on ==
    /\ \E clr \in SgCallers :
        /\ sg_pc[clr] = "destroy"
        /\ \E sh \in sg_todo[clr] :
            /\ sg_queues' = [sg_queues EXCEPT ![sh] = @ \ {sg_id[clr]}]
            /\ sg_todo' = [sg_todo EXCEPT ![clr] = @ \ {sh}]
            /\ IF sg_todo[clr] = {sh}
               THEN /\ sg_bitmap' = sg_bitmap \ {sg_id[clr]}
                    /\ sg_pc' = [sg_pc EXCEPT ![clr] = "idle"]
                    /\ sg_did' = "freed"
               ELSE /\ sg_did' = "none"
                    /\ UNCHANGED <<sg_bitmap, sg_pc>>
    /\ UNCHANGED <<sg_b, sg_id>>
    /\ UNCHANGED notSg

InitSg ==
    /\ sg_bitmap = SgReserved
    /\ sg_pc = [clr \in SgCallers |-> "idle"]
    /\ sg_b = [clr \in SgCallers |-> SgReserved]
    /\ sg_id = [clr \in SgCallers |-> 0]
    /\ sg_queues = [sh \in SgShards |-> SgReserved]
    /\ sg_todo = [clr \in SgCallers |-> {}]
    /\ sg_did = "none"

NextSg ==
    \/ sg_load
    \/ sg_try
    \/ sg_init
    \/ sg_destroy
    \/ sg_destroy_on

(***************************************************************************)
(* io_sink: submit appends a request to _pending_io, drain offers the      *)
(* pending requests to a consumer.  The consumer is given by the set of    *)
(* requests it refuses and by the number of requests it has room for.      *)
(***************************************************************************)
MaxIoRequests == 5

IoRequests == 1..MaxIoRequests

\* the Fn passed to drain: true if the request was consumed
consume(req, refused, room, drained) == req \notin refused /\ drained < room

\* the loop of io_sink::drain, pending being _pending_io.size() as read
\* before the loop: <<drained, offered>>
RECURSIVE drain_loop(_, _, _, _, _, _)
drain_loop(pending_io, pending, refused, room, drained, offered) ==
    IF pending > drained
    THEN IF ~consume(pending_io[drained + 1], refused, room, drained)
         THEN <<drained, Append(offered, pending_io[drained + 1])>>
         ELSE drain_loop(pending_io, pending, refused, room, drained + 1,
                         Append(offered, pending_io[drained + 1]))
    ELSE <<drained, offered>>

erase_one_more(pending_io, drained) == Drop(pending_io, drained + 1)

\* _pending_io.erase(begin, begin + drained)
erase_drained(pending_io, drained) == Drop(pending_io, drained)

\* io_sink::submit
io_submit ==
    /\ io_next <= MaxIoRequests
    /\ io_pending' = Append(io_pending, io_next)
    /\ io_next' = io_next + 1
    /\ io_did' = "submit"
    /\ UNCHANGED <<io_consumed, io_offered, io_ret>>
    /\ UNCHANGED notSink

\* io_sink::drain; the consumer may submit a request of its own while it is
\* offered the pending ones
io_drain ==
    /\ \E refused \in SUBSET IoRequests, room \in 0..MaxIoRequests,
          resubmits \in BOOLEAN :
        LET more == resubmits /\ io_pending /= <<>> /\ io_next <= MaxIoRequests
            grown == IF more THEN Append(io_pending, io_next) ELSE io_pending
            res == drain_loop(grown, Len(io_pending), refused, room, 0, <<>>)
        IN  /\ io_pending' = erase_drained(grown, res[1])
            /\ io_next' = IF more THEN io_next + 1 ELSE io_next
            /\ io_ret' = res[1]
            /\ io_offered' = res[2]
            /\ io_consumed' = io_consumed \o Take(res[2], res[1])
    /\ io_did' = "drain"
    /\ UNCHANGED notSink

InitSink ==
    /\ io_pending = <<>>
    /\ io_next = 1
    /\ io_consumed = <<>>
    /\ io_offered = <<>>
    /\ io_ret = 0
    /\ io_did = "submit"

NextSink ==
    \/ io_submit
    \/ io_drain

(***************************************************************************)
(* Low-resolution timers: the lowres_clock overloads of add_timer,         *)
(* queue_timer and del_timer, do_expire_lowres_timers and the              *)
(* _lowres_next_timeout it is guarded by.  The timer operators are those   *)
(* of the timer section, applied to the low-resolution timer set.          *)
(* timer_set itself is known by its interface only: insert returns true    *)
(* iff the timer is the new earliest, get_next_timeout returns the         *)
(* earliest deadline.                                                      *)
(***************************************************************************)
\* lowres_clock::time_point(): _lowres_next_timeout when no timer is pending
NoLowresTimeout == 0

\* lowres_clock::now() when the reactor starts
LowresStart == 1

LowresState == [armed |-> lr_armed, queued |-> lr_queued,
                expired |-> lr_is_expired, expiry |-> lr_expiry,
                period |-> lr_period, set |-> lr_set, exp |-> lr_exp,
                unfired |-> [t \in Timers |-> 0], inBatch |-> {},
                next |-> lr_next]

SetLowres(ts) ==
    /\ lr_armed' = ts.armed
    /\ lr_queued' = ts.queued
    /\ lr_is_expired' = ts.expired
    /\ lr_expiry' = ts.expiry
    /\ lr_period' = ts.period
    /\ lr_set' = ts.set
    /\ lr_exp' = ts.exp
    /\ lr_next' = ts.next

\* timer_set::insert returns true iff the timer is the new earliest
IsNewEarliest(ts, t) == \A u \in ts.set \ {t} : ts.expiry[t] < ts.expiry[u]

\* timer_set::get_next_timeout: the earliest deadline of a set that is not
\* empty
get_next_timeout(ts) ==
    CHOOSE d \in {ts.expiry[u] : u \in ts.set} :
        \A u \in ts.set : d <= ts.expiry[u]

\* reactor::add_timer(timer<lowres_clock> *)
lowres_add_timer(ts, t) ==
    IF IsNewEarliest(ts, t)
    THEN [queue_timer(ts, t) EXCEPT !.next = get_next_timeout(queue_timer(ts, t))]
    ELSE queue_timer(ts, t)

\* the enable_fn do_expire_lowres_timers passes to complete_timers
lowres_enable(ts) ==
    IF ts.set /= {} THEN [ts EXCEPT !.next = get_next_timeout(ts)]
    ELSE [ts EXCEPT !.next = NoLowresTimeout]

\* timer::arm, timer::cancel and timer::rearm on a low-resolution timer
ApplyLowresOp(ts, op) ==
    IF op[1] = "cancel" THEN timer_cancel(ts, op[2])
    ELSE IF op[1] = "arm"
    THEN lowres_add_timer(arm_state(ts, op[2], op[3], op[4]), op[2])
    ELSE IF op[1] = "rearm"
    THEN lowres_add_timer(arm_state(timer_cancel(ts, op[2]), op[2], op[3],
                                    op[4]), op[2])
    ELSE ts

\* user code outside complete_timers arms or cancels a timer
lr_op ==
    /\ lr_pc = "idle"
    /\ \E op \in TimerOps :
        /\ op[1] /= "none"
        /\ TimerOpOk(LowresState, op)
        /\ SetLowres(ApplyLowresOp(LowresState, op))
    /\ UNCHANGED <<lr_now, lr_pc>>
    /\ UNCHANGED notLowres

\* lowres_clock advances
lr_tick ==
    /\ lr_now < MaxNow
    /\ lr_now' = lr_now + 1
    /\ UNCHANGED <<lr_armed, lr_queued, lr_is_expired, lr_expiry, lr_period,
                   lr_set, lr_exp, lr_next, lr_pc>>
    /\ UNCHANGED notLowres

\* lowres_timer_pollfn::poll: do_expire_lowres_timers, up to the loop of
\* complete_timers, and through enable_fn when nothing has expired
lr_poll ==
    /\ lr_pc = "idle"
    /\ IF lr_next = NoLowresTimeout \/ lr_now < lr_next
       THEN UNCHANGED <<lr_armed, lr_queued, lr_is_expired, lr_expiry,
                        lr_period, lr_set, lr_exp, lr_next, lr_pc>>
       ELSE \E s \in ExpireOrders(LowresState, lr_now) :
            LET ts1 == [LowresState EXCEPT
                          !.exp = s,
                          !.set = lr_set \ Range(s),
                          !.expired = [t \in Timers |->
                                          IF t \in Range(s) THEN TRUE
                                          ELSE lr_is_expired[t]]]
            IN  IF s = <<>>
                THEN SetLowres(lowres_enable(ts1)) /\ UNCHANGED lr_pc
                ELSE SetLowres(ts1) /\ lr_pc' = "expiring"
    /\ UNCHANGED lr_now
    /\ UNCHANGED notLowres

\* one iteration of the loop of complete_timers on the low-resolution set,
\* and enable_fn after the last one
lr_fire ==
    /\ lr_pc = "expiring"
    /\ lr_exp /= <<>>
    /\ LET t   == NextExpired(lr_exp)
           ts1 == FireState(LowresState, t, lr_now) IN
       \E cb \in TimerOps :
        /\ lr_armed[t] \/ cb[1] = "none"
        /\ TimerOpOk(ts1, cb)
        /\ LET ts2 == ApplyLowresOp(ts1, cb) IN
            IF ts2.exp = <<>>
            THEN SetLowres(lowres_enable(ts2)) /\ lr_pc' = "idle"
            ELSE SetLowres(ts2) /\ UNCHANGED lr_pc
    /\ UNCHANGED lr_now
    /\ UNCHANGED notLowres

InitLowres ==
    /\ lr_armed = [t \in Timers |-> FALSE]
    /\ lr_queued = [t \in Timers |-> FALSE]
    /\ lr_is_expired = [t \in Timers |-> FALSE]
    /\ lr_expiry = [t \in Timers |-> 0]
    /\ lr_period = [t \in Timers |-> 0]
    /\ lr_set = {}
    /\ lr_exp = <<>>
    /\ lr_next = NoLowresTimeout
    /\ lr_now = LowresStart
    /\ lr_pc = "idle"

NextLowres ==
    \/ lr_op
    \/ lr_tick
    \/ lr_poll
    \/ lr_fire

(***************************************************************************)
(* The cross-CPU free list of the allocator: cpu_pages::free_cross_cpu     *)
(* run by other CPUs, one atomic access per step, and                      *)
(* cpu_pages::drain_cross_cpu_freelist run by the owner, one freed item    *)
(* per step.  Freed items are handed out again, so that a pointer can      *)
(* come back to the list while a push that saw it as the head is still     *)
(* under way.                                                              *)
(***************************************************************************)
MaxXItems == 3
NumXPushers == 2
MaxXRounds == 2

XItems == 1..MaxXItems
XPushers == 1..NumXPushers

\* the items reached from p through cross_cpu_free_item::next
RECURSIVE Chain(_, _, _)
Chain(nextp, p, fuel) ==
    IF p = 0 \/ fuel = 0 THEN {}
    ELSE {p} \cup Chain(nextp, nextp[p], fuel - 1)

compare_exchange_always(seen, expected) == TRUE

\* list.compare_exchange_weak(old, p) can succeed when the list still holds
\* old
compare_exchange_weak(seen, expected) == seen = expected

\* free_cross_cpu up to the load of the list head; the object is leaked when
\* its CPU is gone
xf_load(c) ==
    /\ xf_pc[c] = "idle"
    /\ \E i \in XItems :
        /\ xf_state[i] = "held"
        /\ \A o \in XPushers : xf_pc[o] /= "idle" => xf_item[o] /= i
        /\ IF ~xf_live
           THEN /\ xf_state' = [xf_state EXCEPT ![i] = "leaked"]
                /\ UNCHANGED <<xf_pc, xf_item, xf_old>>
           ELSE /\ xf_pc' = [xf_pc EXCEPT ![c] = "loaded"]
                /\ xf_item' = [xf_item EXCEPT ![c] = i]
                /\ xf_old' = [xf_old EXCEPT ![c] = xf_head]
                /\ UNCHANGED xf_state
    /\ UNCHANGED <<xf_live, xf_head, xf_nextp, xf_walk, xf_pushes, xf_frees>>
    /\ UNCHANGED notXfree

\* p->next = old
xf_link(c) ==
    /\ xf_pc[c] = "loaded"
    /\ xf_nextp' = [xf_nextp EXCEPT ![xf_item[c]] = xf_old[c]]
    /\ xf_pc' = [xf_pc EXCEPT ![c] = "linked"]
    /\ UNCHANGED <<xf_live, xf_head, xf_state, xf_item, xf_old, xf_walk,
                   xf_pushes, xf_frees>>
    /\ UNCHANGED notXfree

\* list.compare_exchange_weak(old, p): a failure, spurious or not, reloads
\* old and repeats the loop
xf_cas(c) ==
    /\ xf_pc[c] = "linked"
    /\ \E spurious \in BOOLEAN :
        IF ~spurious /\ compare_exchange_weak(xf_head, xf_old[c])
        THEN /\ xf_head' = xf_item[c]
             /\ xf_state' = [xf_state EXCEPT ![xf_item[c]] = "pushed"]
             /\ xf_pushes' = [xf_pushes EXCEPT ![xf_item[c]] = @ + 1]
             /\ xf_pc' = [xf_pc EXCEPT ![c] = "idle"]
             /\ UNCHANGED xf_old
        ELSE /\ xf_old' = [xf_old EXCEPT ![c] = xf_head]
             /\ xf_pc' = [xf_pc EXCEPT ![c] = "loaded"]
             /\ UNCHANGED <<xf_head, xf_state, xf_pushes>>
    /\ UNCHANGED <<xf_live, xf_nextp, xf_item, xf_walk, xf_frees>>
    /\ UNCHANGED notXfree

\* drain_cross_cpu_freelist up to the exchange with nullptr
xf_drain ==
    /\ xf_live
    /\ xf_walk = 0
    /\ xf_head /= 0
    /\ xf_walk' = xf_head
    /\ xf_head' = 0
    /\ UNCHANGED <<xf_live, xf_nextp, xf_state, xf_pc, xf_item, xf_old,
                   xf_pushes, xf_frees>>
    /\ UNCHANGED notXfree

\* one iteration of the loop of drain_cross_cpu_freelist
xf_free ==
    /\ xf_walk /= 0
    /\ xf_walk' = xf_nextp[xf_walk]
    /\ xf_frees' = [xf_frees EXCEPT ![xf_walk] = @ + 1]
    /\ xf_state' = [xf_state EXCEPT ![xf_walk] = "free"]
    /\ UNCHANGED <<xf_live, xf_head, xf_nextp, xf_pc, xf_item, xf_old,
                   xf_pushes>>
    /\ UNCHANGED notXfree

\* the owner's allocator hands a freed object to another CPU again
xf_alloc ==
    /\ \E i \in XItems :
        /\ xf_state[i] = "free"
        /\ xf_pushes[i] < MaxXRounds
        /\ xf_state' = [xf_state EXCEPT ![i] = "held"]
    /\ UNCHANGED <<xf_live, xf_head, xf_nextp, xf_pc, xf_item, xf_old,
                   xf_walk, xf_pushes, xf_frees>>
    /\ UNCHANGED notXfree

\* cpu_pages::~cpu_pages of the owner
xf_exit ==
    /\ xf_live
    /\ xf_walk = 0
    /\ xf_live' = FALSE
    /\ UNCHANGED <<xf_head, xf_nextp, xf_state, xf_pc, xf_item, xf_old,
                   xf_walk, xf_pushes, xf_frees>>
    /\ UNCHANGED notXfree

InitXfree ==
    /\ xf_live = TRUE
    /\ xf_head = 0
    /\ xf_nextp = [i \in XItems |-> 0]
    /\ xf_state = [i \in XItems |-> "held"]
    /\ xf_pc = [c \in XPushers |-> "idle"]
    /\ xf_item = [c \in XPushers |-> 1]
    /\ xf_old = [c \in XPushers |-> 0]
    /\ xf_walk = 0
    /\ xf_pushes = [i \in XItems |-> 0]
    /\ xf_frees = [i \in XItems |-> 0]

NextXfree ==
    \/ \E c \in XPushers : xf_load(c)
    \/ \E c \in XPushers : xf_link(c)
    \/ \E c \in XPushers : xf_cas(c)
    \/ xf_drain
    \/ xf_free
    \/ xf_alloc
    \/ xf_exit

(***************************************************************************)
(* Signals: signals::action, run asynchronously on the reactor thread      *)
(* whenever a signal is delivered, against signals::poll_signal, one       *)
(* atomic access or one handler per step, and signal_pollfn with the       *)
(* sleep of the reactor.                                                   *)
(***************************************************************************)
NumSignalNos == 2

SignalNos == 1..NumSignalNos

fetch_and_none(pending, observed) == {}

\* _pending_signals.fetch_and(~signals)
fetch_and_not(pending, observed) == pending \ observed

\* signals::action for every signal of the set s
Deliver(s) ==
    /\ sn_pending' = sn_pending \cup s
    /\ sn_unhandled' = sn_unhandled \cup s

\* a signal is sent to the thread: held back while masked, else
\* signals::action runs, and interrupts the wait of a sleeping reactor
sn_raise ==
    /\ \E s \in SignalNos :
        IF sn_masked
        THEN /\ sn_blocked' = sn_blocked \cup {s}
             /\ UNCHANGED <<sn_pending, sn_unhandled, sn_pc>>
        ELSE /\ Deliver({s})
             /\ sn_pc' = IF sn_pc = "asleep" THEN "run" ELSE sn_pc
             /\ UNCHANGED sn_blocked
    /\ UNCHANGED <<sn_loaded, sn_masked, sn_entering>>
    /\ UNCHANGED notSignal

\* signal_pollfn::poll: poll_signal up to its load
sn_poll ==
    /\ sn_pc = "run"
    /\ sn_loaded' = sn_pending
    /\ sn_pc' = IF sn_pending = {} THEN "run" ELSE "clear"
    /\ sn_entering' = FALSE
    /\ UNCHANGED <<sn_pending, sn_blocked, sn_masked, sn_unhandled>>
    /\ UNCHANGED notSignal

\* signal_pollfn::try_enter_interrupt_mode: mask every signal, then
\* poll_signal up to its load; nothing pending means interrupt mode
sn_try_enter ==
    /\ sn_pc = "run"
    /\ sn_masked' = TRUE
    /\ sn_loaded' = sn_pending
    /\ sn_pc' = IF sn_pending = {} THEN "entered" ELSE "clear"
    /\ sn_entering' = TRUE
    /\ UNCHANGED <<sn_pending, sn_blocked, sn_unhandled>>
    /\ UNCHANGED notSignal

\* poll_signal: the fetch_and
sn_clear ==
    /\ sn_pc = "clear"
    /\ sn_pending' = fetch_and_not(sn_pending, sn_loaded)
    /\ sn_pc' = "handlers"
    /\ UNCHANGED <<sn_loaded, sn_blocked, sn_masked, sn_entering,
                   sn_unhandled>>
    /\ UNCHANGED notSignal

\* poll_signal: one handler of the loop, lowest bit first; after the last
\* one try_enter_interrupt_mode has "raced already, and lost"
sn_handler ==
    /\ sn_pc = "handlers"
    /\ LET i == CHOOSE b \in sn_loaded : \A o \in sn_loaded : b <= o
           last == sn_loaded = {i} IN
        /\ sn_loaded' = sn_loaded \ {i}
        /\ sn_unhandled' = sn_unhandled \ {i}
        /\ sn_pc' = IF ~last THEN "handlers"
                    ELSE IF sn_entering THEN "refused" ELSE "run"
    /\ UNCHANGED <<sn_pending, sn_blocked, sn_masked, sn_entering>>
    /\ UNCHANGED notSignal

\* reactor::sleep after every poller entered interrupt mode:
\* wait_and_process_events(&_active_sigmask) swaps the mask and waits; a
\* signal held back is delivered at once and ends the wait
sn_sleep ==
    /\ sn_pc = "entered"
    /\ sn_masked' = FALSE
    /\ sn_entering' = FALSE
    /\ IF sn_blocked = {}
       THEN /\ sn_pc' = "asleep"
            /\ UNCHANGED <<sn_pending, sn_unhandled, sn_blocked>>
       ELSE /\ Deliver(sn_blocked)
            /\ sn_blocked' = {}
            /\ sn_pc' = "run"
    /\ UNCHANGED sn_loaded
    /\ UNCHANGED notSignal

\* signal_pollfn::exit_interrupt_mode, called by try_enter_interrupt_mode
\* when it refuses and by reactor::sleep when a later poller does: the mask
\* is restored, which lets the signals held back in
sn_exit_interrupt_mode ==
    /\ sn_pc \in {"entered", "refused"}
    /\ sn_masked' = FALSE
    /\ sn_entering' = FALSE
    /\ Deliver(sn_blocked)
    /\ sn_blocked' = {}
    /\ sn_pc' = "run"
    /\ UNCHANGED sn_loaded
    /\ UNCHANGED notSignal

\* another event ends the wait
sn_wake ==
    /\ sn_pc = "asleep"
    /\ sn_pc' = "run"
    /\ UNCHANGED <<sn_pending, sn_loaded, sn_blocked, sn_masked, sn_entering,
                   sn_unhandled>>
    /\ UNCHANGED notSignal

InitSignal ==
    /\ sn_pending = {}
    /\ sn_loaded = {}
    /\ sn_blocked = {}
    /\ sn_masked = FALSE
    /\ sn_pc = "run"
    /\ sn_entering = FALSE
    /\ sn_unhandled = {}

sn_reactor ==
    \/ sn_poll
    \/ sn_try_enter
    \/ sn_clear
    \/ sn_handler
    \/ sn_sleep
    \/ sn_exit_interrupt_mode

NextSignal ==
    \/ sn_raise
    \/ sn_poll
    \/ sn_try_enter
    \/ sn_clear
    \/ sn_handler
    \/ sn_sleep
    \/ sn_exit_interrupt_mode
    \/ sn_wake

(***************************************************************************)
(* policy::select_any: the result handler of select_any_factory::make and  *)
(* the error handler of make_error_handler share one counter; every        *)
(* request of ids_ is answered once, with a result or with an error.       *)
(***************************************************************************)
MaxSelect == 5

SelectIds == 1..MaxSelect

result_handler_keeps(pending) == [call |-> pending > 0, pending |-> pending]

\* the lambda of select_any_factory::make: whether f is called, and *pending
\* afterwards
result_handler(pending) ==
    [call |-> pending > 0, pending |-> IF pending > 0 THEN 0 ELSE pending]

\* the lambda of make_error_handler: whether g is called, with
\* sec::all_requests_failed, and *pending afterwards
error_handler(pending) ==
    IF pending = 0 THEN [call |-> FALSE, pending |-> pending]
    ELSE IF pending = 1 THEN [call |-> TRUE, pending |-> pending]
    ELSE [call |-> FALSE, pending |-> pending - 1]

\* select_any(ids).then(f, g): pending = ids_.size(), one handler pair per id
sa_then ==
    /\ ~sa_started
    /\ \E n \in 0..MaxSelect :
        /\ sa_ids' = 1..n
        /\ sa_left' = 1..n
        /\ sa_pending' = n
    /\ sa_started' = TRUE
    /\ UNCHANGED <<sa_ok, sa_failed, sa_results, sa_errors>>
    /\ UNCHANGED notSelect

\* a request is answered with a result
sa_result ==
    /\ sa_started
    /\ \E id \in sa_left :
        LET r == result_handler(sa_pending) IN
        /\ sa_left' = sa_left \ {id}
        /\ sa_ok' = Append(sa_ok, id)
        /\ sa_pending' = r.pending
        /\ sa_results' = IF r.call THEN Append(sa_results, id) ELSE sa_results
    /\ UNCHANGED <<sa_ids, sa_started, sa_failed, sa_errors>>
    /\ UNCHANGED notSelect

\* a request is answered with an error
sa_error ==
    /\ sa_started
    /\ \E id \in sa_left :
        LET r == error_handler(sa_pending) IN
        /\ sa_left' = sa_left \ {id}
        /\ sa_failed' = sa_failed \cup {id}
        /\ sa_pending' = r.pending
        /\ sa_errors' = IF r.call
                        THEN Append(sa_errors, "all_requests_failed")
                        ELSE sa_errors
    /\ UNCHANGED <<sa_ids, sa_started, sa_ok, sa_results>>
    /\ UNCHANGED notSelect

InitSelect ==
    /\ sa_ids = {}
    /\ sa_started = FALSE
    /\ sa_pending = 0
    /\ sa_left = {}
    /\ sa_ok = <<>>
    /\ sa_failed = {}
    /\ sa_results = <<>>
    /\ sa_errors = <<>>

NextSelect ==
    \/ sa_then
    \/ sa_result
    \/ sa_error

(***************************************************************************)
(* Specifications: one per component; the other components stay in their   *)
(* initial state.                                                          *)
(***************************************************************************)
InitSmp ==
    /\ nextItem = 1
    /\ semAvail = SemUnits
    /\ semWait = <<>>
    /\ pending_fifo = <<>>
    /\ pendingRing = <<>>
    /\ handled = <<>>
    /\ inflight = {}
    /\ completed_fifo = <<>>
    /\ completedRing = <<>>
    /\ failedItems = {}
    /\ deletedItems = {}
    /\ partialPush = FALSE

NextSmp ==
    \/ submit_item
    \/ submit_timeout
    \/ poll_consumer
    \/ respond
    \/ poll_producer

vars == <<smpVars, schedVars, timerVars, stopVars, idleVars, bootVars,
          quotaVars, requestVars,
            activeSetVars,
            wakeVars,
            stallVars,
            pollVars,
            lifeVars,
            sgVars,
            sinkVars,
            lowresVars,
            xfreeVars,
            signalVars,
            selectVars>>

Init == InitSmp /\ InitSched /\ InitTimer /\ InitStop /\ InitIdle /\ InitBoot
        /\ InitQuota /\ InitRequest
        /\ InitActiveSet
        /\ InitWake
        /\ InitStall
        /\ InitPoll
        /\ InitLife
        /\ InitSg
        /\ InitSink
        /\ InitLowres
        /\ InitXfree
        /\ InitSignal
        /\ InitSelect

\* the build matters to the shutdown only: elsewhere assertions are compiled in
InitAsserting == Init /\ assertsOn

SpecSmp == InitAsserting /\ [][NextSmp]_vars

SpecSched == InitAsserting /\ [][NextSched]_vars

SpecIdle == InitAsserting /\ [][NextIdle]_vars

SpecBoot == InitAsserting /\ [][NextBoot]_vars

SpecQuota == InitAsserting /\ [][NextQuota]_vars

SpecRequest == InitAsserting /\ [][NextRequest]_vars

SpecSelect == InitAsserting /\ [][NextSelect]_vars

SpecSignal == InitAsserting /\ [][NextSignal]_vars

SpecXfree == InitAsserting /\ [][NextXfree]_vars

SpecLowres == InitAsserting /\ [][NextLowres]_vars

SpecSink == InitAsserting /\ [][NextSink]_vars

SpecSg == InitAsserting /\ [][NextSg]_vars

SpecLife == InitAsserting /\ [][NextLife]_vars

SpecPoll == InitAsserting /\ [][NextPoll]_vars

SpecStall == InitAsserting /\ [][NextStall]_vars

SpecWake == InitAsserting /\ [][NextWake]_vars

SpecActiveSet == InitAsserting /\ [][NextActiveSet]_vars

\* the reactor loop keeps running, and the preemption timer keeps ticking
SpecSchedFair ==
    /\ SpecSched
    /\ WF_vars(run_some_tasks \/ run_tasks \/ finish_batch)
    /\ WF_vars(request_preemption)

SpecTimer == InitAsserting /\ [][NextTimer]_vars

SpecStop == Init /\ [][NextStop]_vars

SpecDrain == Init /\ [][NextDrain]_vars

\* the shards keep polling their queues and running their continuations
SpecDrainFair ==
    /\ SpecDrain
    /\ WF_vars(exit_func_step)
    /\ WF_vars(remote_stop)
    /\ WF_vars(stop_ack)
    /\ WF_vars(see_stopped)
    /\ WF_vars(drain_tasks \/ run_at_destroy \/ leave_loop)

C2_EveryTaskRuns == ProbeQueued ~> (~ProbeQueued \/ excuse \in {"urgent", "zero"})

ActiveFlags == {q \in SchedQueues : tq_active[q]}

\* C3 as stated: at every point the active set holds as many queues as have
\* their _active flag set.
C3_ActiveSetMatchesFlags == Len(active_task_queues) = Cardinality(ActiveFlags)

\* C3, amended: the queues whose _active flag is set are those of the active
\* set and the queue run_some_tasks has popped and is running, each once.
C3_ActiveSetAndCurrent ==
    /\ Range(active_task_queues) \cup (IF cur = NoQueue THEN {} ELSE {cur})
         = ActiveFlags
    /\ Len(active_task_queues) + (IF cur = NoQueue THEN 0 ELSE 1)
         = Cardinality(ActiveFlags)

\* run_tasks has emptied the queue it was running, which is about to be
\* deactivated, while another queue is in the active set
C3_Witness ==
    /\ spc = "finish"
    /\ tq_q[cur] = <<>>
    /\ active_task_queues /= <<>>

Fires(t) ==
    /\ tpc = "expiring"
    /\ now' = now
    /\ expired_timers /= <<>>
    /\ t = Head(expired_timers)
    /\ t_armed[t]

\* C5: a callback is invoked only for an arm that has not fired yet and only
\* when the clock has reached the deadline; afterwards the timer is queued
\* exactly if it has a period and its callback did not cancel it, and a timer
\* without a period is neither armed nor queued (unless its callback armed it
\* again).
C5_FiresOncePerArm ==
    [][\A t \in Timers : Fires(t) =>
          /\ unfired[t] = 1
          /\ t_expiry[t] <= now
          /\ cbSelf' \notin {"arm", "rearm"} =>
                /\ t_queued'[t] <=> (t_period[t] /= 0 /\ cbSelf' /= "cancel")
                /\ t_period[t] = 0 => ~t_armed'[t] /\ ~t_queued'[t]]_vars

\* one run of complete_timers has fired a timer without a period, which is
\* now neither armed nor queued, and a periodic timer, which is queued again
C5_Witness ==
    /\ tpc = "idle"
    /\ Len(batchFired) = 2
    /\ \E t, u \in Timers :
          /\ t_period[t] /= 0 /\ t_queued[t] /\ t_armed[t]
          /\ t_period[u] = 0 /\ t_expired[u] /\ ~t_armed[u] /\ ~t_queued[u]

\* C6 as stated: the timer whose callback is invoked next has no greater
\* deadline than any other timer that is queued.
C6_DeadlineOrder ==
    (tpc = "expiring" /\ expired_timers /= <<>> /\ t_armed[Head(expired_timers)])
        => \A u \in Timers :
              t_queued[u] /\ t_armed[u]
                  => t_expiry[u] >= t_expiry[Head(expired_timers)]

\* the deadlines of a sequence of timers
Deadlines(s) == [k \in 1..Len(s) |-> t_expiry[s[k]]]

IsNonDecreasing(s) == \A a, b \in 1..Len(s) : a < b => s[a] <= s[b]

\* C6, amended: within one run of complete_timers the callbacks are invoked
\* in non-decreasing deadline order, and a timer that was left in the timer
\* set by that run has a greater deadline than all the timers of the run; a
\* timer armed by a callback of the run waits for a later run, whatever its
\* deadline.
C6_DeadlineOrderWithinRun ==
    tpc = "expiring" =>
        /\ IsNonDecreasing(batchFired \o Deadlines(expired_timers))
        /\ \A u \in timer_set \ armedInBatch :
              \A k \in 1..Len(expired_timers) :
                  t_expiry[u] > t_expiry[expired_timers[k]]

\* a run of complete_timers has invoked one callback and holds a timer with
\* a greater deadline
C6_Witness ==
    /\ tpc = "expiring"
    /\ Len(batchFired) = 1
    /\ expired_timers /= <<>>
    /\ t_expiry[Head(expired_timers)] > batchFired[1]

Reverse(s) == [k \in 1..Len(s) |-> s[Len(s) + 1 - k]]

IsPrefix(s, u) == Len(s) <= Len(u) /\ s = SubSeq(u, 1, Len(s))

\* C7: on every shard the at-exit functions run exactly once and in reverse
\* order of registration, however often stop() is requested: what has run is
\* a prefix of the reversed registration list, and the whole of it once the
\* shard has set _stopped.
C7_ExitFuncsOnceInReverse ==
    \A r \in Shards :
        /\ IsPrefix(ran[r], Reverse(exit_funcs[r]))
        /\ stopped[r] => ran[r] = Reverse(exit_funcs[r])

\* C8: no other shard has started its at-exit functions before shard 0 has
\* finished its own, and _stopped of shard 0 is set only when every other
\* shard has run its functions and set its own _stopped.
C8_Shard0FirstAndLast ==
    /\ \A j \in Shards \ {0} :
          ran[j] /= <<>> => Len(ran[0]) = Len(exit_funcs[0])
    /\ stopped[0] =>
          \A j \in Shards \ {0} :
              stopped[j] /\ Len(ran[j]) >= Len(exit_funcs[j])

\* C9: once the lambda of an exit(code) call has run, stop() has been executed
\* on the reactor of shard 0 and _return of shard 0, which run() returns, is
\* that code; without any exit call it is 0.
C9_ExitStopsShard0 ==
    IF lastExit = <<>> THEN retval[0] = 0
    ELSE stopping[0] /\ retval[0] = lastExit[2]

\* C10: a shard that has arrived at the event-loop-end barrier has no task
\* left in any of its task queues, the at-exit queue included.
C10_QueuesEmptyAtLoopExit ==
    \A s \in Shards : mainpc[s] = "done" => ntasks[s] = 0 /\ ndestroy[s] = 0

\* C11: a failing at-exit function blocks no shard: a shard whose shutdown
\* has begun (_stopping) eventually leaves its loop, whether its at-exit
\* functions succeed or fail.
C11_FailureDoesNotBlock ==
    \A s \in Shards : stopping[s] ~> (mainpc[s] = "done")

\* the position of the probe in a queue that holds it
ProbePos(q) == CHOOSE k \in 1..Len(q) : q[k] = "probe"

\* the number of late tasks of a queue
Lates(q) == Cardinality({k \in 1..Len(q) : q[k] = "late"})

\* C12: the tasks of a queue run in the order in which add_task added them:
\* in a queue that holds the probe, the tasks behind the probe are exactly
\* those that add_task added after it, and none of them leaves the queue
\* while the probe is in it.
C12_TaskFifo ==
    [][\A q \in SchedQueues :
          IF "probe" \in Range(tq_q'[q])
          THEN /\ \A k \in 1..Len(tq_q'[q]) :
                     tq_q'[q][k] = "late" <=> k > ProbePos(tq_q'[q])
               /\ "probe" \in Range(tq_q[q]) => Lates(tq_q'[q]) >= Lates(tq_q[q])
          ELSE Lates(tq_q'[q]) = 0]_vars

\* an earlier batch of the queue ended before the probe; the next batch is
\* running with the probe at the front and a later task behind it
C12_Witness ==
    /\ spc = "running"
    /\ tq_vruntime[cur] > 0
    /\ Len(tq_q[cur]) >= 2
    /\ tq_q[cur][1] = "probe"
    /\ tq_q[cur][2] = "late"

\* a queue that is in the active set or on its way into it
Contending(q) ==
    tq_active[q] \/ q \in Range(activating_task_queues)

C14_BlocksOnlyWithoutWork ==
    ipc = "blocked" => idleTasks = 0

\* the items that hold a unit of the semaphore: granted, and not yet seen by
\* process_completions
HoldingUnit ==
    Range(pending_fifo) \cup Range(pendingRing) \cup inflight
        \cup Range(completed_fifo) \cup Range(completedRing)

\* C15: an item whose semaphore wait failed is failed on the submitting shard
\* and nothing else: it is in neither pending_fifo nor the ring, it never
\* reaches the handler, and it holds no unit: the units not available are
\* exactly those of the items granted and not yet completed.
C15_FailedWaitLeavesNothing ==
    /\ failedItems \cap (HoldingUnit \cup Range(handled) \cup deletedItems) = {}
    /\ failedItems \cap Range(semWait) = {}
    /\ semAvail + Cardinality(HoldingUnit) = SemUnits

\* a wait has failed, and afterwards every unit came back to the semaphore
\* while a later item went through
C15_Witness ==
    /\ failedItems /= {}
    /\ semAvail = SemUnits
    /\ \E f \in failedItems : \E d \in deletedItems : d > f

\* C16: boot is ordered by the barriers: a shard that called start_all_queues
\* found the whole grid of smp::count x smp::count queues constructed; the
\* grid was built from registered reactors only; and a shard that went on to
\* its loop found every shard with its queues started and its I/O queues
\* assigned.
C16_BootOrder ==
    /\ \A s \in BootShards :
          queuesStarted[s] >= 0 => queuesStarted[s] = BootCount * BootCount
    /\ qsSawReactors
    /\ \A s \in BootShards : loopSaw[s]

\* every shard is in its loop
C16_Witness ==
    \A s \in BootShards : bpc[s] = "run"

\* C17: a timer callback that throws does not stop the processing of timers:
\* complete_timers ends only with the expired list empty and the scheduling
\* group of its caller restored, and a periodic timer whose callback threw
\* (and did not touch its own timer) is armed and queued in the timer set.
C17_ThrowDoesNotStopTimers ==
    [][/\ (tpc = "expiring" /\ tpc' = "idle")
            => (expired_timers' = <<>> /\ cur_sg' = prev_sg)
       /\ \A t \in Timers :
            (Fires(t) /\ threwAt' /= threwAt /\ t_period[t] /= 0
                /\ cbSelf' = "none")
                => (t_armed'[t] /\ t_queued'[t] /\ t \in timer_set')]_vars

\* a run of complete_timers has ended in which the first callback threw and
\* a second one was invoked after it; both timers are periodic and are
\* queued again
C17_Witness ==
    /\ tpc = "idle"
    /\ threwAt = 1
    /\ Len(batchFired) = 2
    /\ cur_sg = 2
    /\ \A t \in Timers : t_period[t] /= 0 /\ t_queued[t] /\ t \in timer_set

C19_QuotaViolations ==
    [][(qpc = "batch" /\ qpc' = "idle") =>
          /\ violations'[qcur] - violations[qcur] >= batchOwed
          /\ lastDelta' <= 2 * TaskQuota => violations' = violations]_vars

\* a batch with two tasks over twice the quota has been accounted
C19_Witness ==
    /\ qpc = "idle"
    /\ batchOwed >= 2 * (TaskQuota + 1)
    /\ batchElapsed = 2 * (2 * TaskQuota + 1)
    /\ violations[qcur] >= batchOwed

\* the responses in the client's mailbox for request m
ResponsesFor(m) ==
    {clientMailbox[k] : k \in {j \in 1..Len(clientMailbox) :
                                   clientMailbox[j][1] = m}}

C21_RunTasksReturn ==
    spc = "finish" =>
        /\ ranTask
        /\ \/ tq_q[cur] = <<>>
           \/ need_preempt /\ Len(tq_q[cur]) <= MaxTaskBacklog
        /\ need_preempt => Len(tq_q[cur]) <= MaxTaskBacklog

\* run_tasks has returned on the preemption monitor with tasks left, after
\* it had reset the monitor once over a longer backlog
C21_Witness ==
    /\ spc = "finish"
    /\ need_preempt
    /\ Len(tq_q[cur]) = MaxTaskBacklog
    /\ resets = 1

\* C22: within one call of run_tasks reset_preemption_monitor is called at
\* most once.
C22_ResetOnce == spc \in {"running", "finish"} => resets <= 1

\* the place of queue q in the sequence s
PlaceOf(s, q) == CHOOSE k \in 1..Len(s) : s[k] = q

\* C23: the active set is sorted by ascending _vruntime, queues of equal
\* _vruntime are in the order they were inserted, and the queue that
\* pop_active_task_queue returned has no larger a _vruntime than any queue
\* still in the active set.
C23_ActiveSetSorted ==
    /\ \A i, j \in 1..Len(as_queues) :
          i < j =>
            /\ as_vruntime[as_queues[i]] <= as_vruntime[as_queues[j]]
            /\ as_vruntime[as_queues[i]] = as_vruntime[as_queues[j]]
               => PlaceOf(as_order, as_queues[i])
                    < PlaceOf(as_order, as_queues[j])
    /\ as_current /= NoQueue =>
          \A q \in Range(as_queues) :
              as_vruntime[as_current] <= as_vruntime[q]

\* queue 1 was inserted first; queue 2 and then queue 0 came with a smaller
\* _vruntime, the same for both, and were put ahead of it, queue 0 behind
\* queue 2
C23_Witness ==
    /\ as_queues = <<2, 0, 1>>
    /\ as_order = <<1, 2, 0>>
    /\ as_vruntime[2] = as_vruntime[0]
    /\ as_vruntime[0] < as_vruntime[1]

\* C24: activate puts an inactive queue at max(_last_vruntime, _vruntime) and
\* appends it to the activating list, where it is once and has _active
\* clear; a queue waiting there has a _vruntime of at least _last_vruntime,
\* the largest _vruntime a queue had when it was selected.
C24_ActivateLiftsVruntime ==
    /\ [](\A q \in SchedQueues :
            /\ Cardinality({k \in 1..Len(activating_task_queues) :
                               activating_task_queues[k] = q}) <= 1
            /\ q \in Range(activating_task_queues) =>
                  /\ ~tq_active[q]
                  /\ q \notin Range(active_task_queues)
                  /\ tq_vruntime[q] >= last_vruntime)
    /\ [][\A q \in Range(activating_task_queues')
                    \ Range(activating_task_queues) :
              tq_vruntime'[q] = Max(last_vruntime, tq_vruntime[q])]_vars

\* while queue 0 runs at a _vruntime above zero, queue 2, which has a larger
\* _vruntime of its own, has been activated
C24_Witness ==
    /\ spc = "running"
    /\ cur = 0
    /\ last_vruntime = tq_vruntime[0]
    /\ last_vruntime > 0
    /\ activating_task_queues = <<2>>
    /\ tq_vruntime[2] > last_vruntime

\* the pollers on which the call of reactor::sleep made a call of this kind,
\* in the order of the calls
CallsOf(kind) ==
    LET s == SelectSeq(calls, LAMBDA c : c[1] = kind) IN
    [k \in 1..Len(s) |-> s[k][2]]

\* C25: reactor::sleep enters interrupt mode on the pollers in registration
\* order and blocks only if every poller accepted; when a poller refuses, the
\* pollers that had entered, and only they, are exited in reverse order and
\* the reactor does not block; after a blocking wait all pollers are exited
\* in reverse order.  When sleep has returned every enter is matched by an
\* exit, no poller is in interrupt mode and _sleeping is false.
C25_SleepEntersAndRewinds ==
    /\ CallsOf("enter") = [k \in 1..Len(CallsOf("enter")) |-> k]
    /\ ipc = "blocked" =>
          /\ Len(CallsOf("enter")) = NumPollers
          /\ CallsOf("refuse") = <<>>
          /\ CallsOf("exit") = <<>>
    /\ ipc = "sleep" => CallsOf("refuse") = <<>> /\ CallsOf("exit") = <<>>
    /\ ipc \notin {"sleep", "blocked"} =>
          /\ CallsOf("exit") = Reverse(CallsOf("enter"))
          /\ \A a, b \in 1..Len(calls) :
                calls[a][1] = "enter" /\ calls[b][1] = "exit" => a < b
          /\ CallsOf("refuse") /= <<>> =>
                CallsOf("refuse") = <<Len(CallsOf("enter")) + 1>>
          /\ CallsOf("refuse") = <<>> /\ calls /= <<>> =>
                Len(CallsOf("enter")) = NumPollers
          /\ interruptMode = NoInterruptMode
          /\ ~sleeping

\* the last poller refused after the others, among them smp_pollfn, had
\* entered interrupt mode, and sleep has returned
C25_Witness ==
    /\ ipc = "run"
    /\ CallsOf("refuse") = <<NumPollers>>
    /\ Len(CallsOf("exit")) = NumPollers - 1

\* a wake-up event is in memory or among the stores on their way to it
WakeUnderWay ==
    \/ wk_mem.notified
    \/ \E c \in Cores : <<"notified", 0, TRUE>> \in Range(wk_buf[c])

\* C26: the consumer is never blocked in the backend with an item in one of
\* its rings whose producer has returned from maybe_wakeup, unless a wake-up
\* event has been written: either the poll of try_enter_interrupt_mode saw
\* the item and the consumer did not block, or the producer saw _sleeping.
C26_NoLostWakeup ==
    wk_cpc = "blocked" =>
        \A p \in Producers :
            wk_mem.widx[p] > wk_ridx[p] /\ wk_ppc[p] = "idle" => WakeUnderWay

\* the consumer is blocked, a producer has pushed an item that is in the
\* ring, found _sleeping set and written the wake-up event
C26_Witness ==
    /\ wk_cpc = "blocked"
    /\ \E p \in Producers :
        /\ wk_mem.widx[p] > wk_ridx[p]
        /\ wk_ppc[p] = "idle"
    /\ wk_mem.notified
    /\ ~wk_mem.sleeping

\* C27 as stated: a signal that arrives while a batch is running and finds
\* tasks_processed unchanged reports if the rate limit allows, doubles the
\* back-off and re-arms the timer; one that finds it changed records the new
\* value and re-arms the timer at the base interval, back-off factor 1.
C27_ProgressRearmsAtBase ==
    [][/\ sd_did' = "stall" =>
            /\ sd_report_at' = 2 * sd_report_at
            /\ sd_generated' = IF sd_reported < ReportsPerMinute
                               THEN sd_generated + 1 ELSE sd_generated
            /\ sd_armed'
            /\ sd_left' = Threshold * sd_report_at' + Slack
       /\ sd_did' = "progress" =>
            /\ sd_last_seen' = sd_tasks
            /\ sd_armed'
            /\ sd_left' = Threshold * 1 + Slack]_vars

\* C27, amended: the signal that finds tasks_processed changed records the
\* new value and re-arms the timer at the back-off factor as it is, which a
\* stall reported earlier in the same run has left above 1.
C27_ProgressKeepsBackoff ==
    [][/\ sd_did' = "stall" =>
            /\ sd_report_at' = 2 * sd_report_at
            /\ sd_generated' = IF sd_reported < ReportsPerMinute
                               THEN sd_generated + 1 ELSE sd_generated
            /\ sd_armed'
            /\ sd_left' = Threshold * sd_report_at' + Slack
       /\ sd_did' = "progress" =>
            /\ sd_last_seen' = sd_tasks
            /\ sd_report_at' = sd_report_at
            /\ sd_armed'
            /\ sd_left' = Threshold * sd_report_at + Slack]_vars

\* a signal has found a task processed, after a stall in the same run had
\* doubled the back-off
C27_Witness ==
    /\ sd_did = "progress"
    /\ sd_pc = "batch"
    /\ sd_report_at > 1

\* C28: since the minute mark was last moved at most
\* stall_detector_reports_per_minute reports were generated; the step that
\* moves the mark writes a "suppressed N backtraces" line exactly if more
\* stalls were detected than reported, with N the difference, and restarts
\* _reported from zero; no other step writes the line.
C28_RateLimit ==
    /\ [](sd_generated <= ReportsPerMinute)
    /\ [][IF sd_minute_mark' /= sd_minute_mark
          THEN /\ sd_line' = IF sd_detected > sd_generated
                             THEN sd_detected - sd_generated ELSE 0
               /\ sd_reported' = 0
          ELSE sd_line' = 0]_vars

\* the minute has rolled over after more stalls than the limit, and the line
\* was written
C28_Witness == sd_line > 0 /\ sd_reported = 0

\* C29: the timer is disarmed while the reactor is blocked, and while a task
\* batch is running the timer is armed and the detector is active.
C29_ArmedAndActiveInBatch ==
    /\ sd_pc = "asleep" => ~sd_armed
    /\ sd_pc = "batch" => sd_armed /\ sd_last_seen /= 0

\* the pollfn types of the pollers of run() in a sequence of pollers
RECURSIVE BuiltinTypes(_)
BuiltinTypes(ps) ==
    IF ps = <<>> THEN <<>>
    ELSE IF Head(ps)[1] = "builtin"
         THEN <<RunPollers[Head(ps)[2]]>> \o BuiltinTypes(Tail(ps))
         ELSE BuiltinTypes(Tail(ps))

\* C30: poll_once calls every registered poller, once each and in the order
\* of _pollers, whichever of them reports work, and returns true exactly if
\* one of them did; the pollers of run() that are called are called in the
\* order cross-shard inbox, reap kernel completions, I/O queue submission,
\* kernel submit, reap kernel completions, TCP batch flush, execution-stage
\* flush, syscall-pool completions, cross-CPU free-list drain,
\* low-resolution timers, signals.
C30_PollsAllInOrder ==
    pl_did = "poll" =>
        /\ pl_calls = pl_pollers
        /\ Len(pl_results) = Len(pl_calls)
        /\ pl_work = (\E n \in DOMAIN pl_results : pl_results[n])
        /\ IsPrefix(BuiltinTypes(pl_calls),
                    <<"smp_pollfn", "reap_kernel_completions_pollfn",
                      "io_queue_submission_pollfn",
                      "kernel_submit_work_pollfn",
                      "reap_kernel_completions_pollfn", "batch_flush_pollfn",
                      "execution_stage_pollfn", "syscall_pollfn",
                      "drain_cross_cpu_freelist_pollfn",
                      "lowres_timer_pollfn", "signal_pollfn">>)

\* a poll_once in which the first poller reported work and no other did,
\* with all the pollers of run() and one more registered
C30_Witness ==
    /\ pl_did = "poll"
    /\ Len(pl_calls) = Len(RunPollers) + 1
    /\ Len(BuiltinTypes(pl_calls)) = Len(RunPollers)
    /\ pl_results[1]
    /\ \A n \in 2..Len(pl_results) : ~pl_results[n]

\* C31: the poller list changes in length only in a task, never while
\* poll_once is iterating it; a destroyed poller is not in the list, in
\* particular one destroyed before its registration task ran; and no poll
\* function of a destroyed poller is invoked.
C31_PollerListSafe ==
    /\ [](/\ \A p \in LifePollers :
                lf_state[p] = "destroyed" =>
                    \A n \in DOMAIN lf_list : lf_list[n] /= <<"user", p>>
          /\ lf_last[1] = "user" => lf_state[lf_last[2]] /= "destroyed")
    /\ [][lf_iter /= 0 => Len(lf_list') = Len(lf_list)]_vars

\* C32: no task object is freed while it is in the queue, none is freed
\* twice, and a task object is freed exactly once when run_tasks has
\* consumed it and not before.
C32_TasksDisposedOnce ==
    /\ \A n \in DOMAIN lf_tasks : ~lf_tasks[n].freed
    /\ \A id \in TaskObjects :
        lf_disposed[id] = IF id \in lf_consumed THEN 1 ELSE 0

SgHolds(clr) == sg_pc[clr] \in {"init", "have", "destroy"}

\* C33: two callers never hold the same scheduling-group id, whatever the
\* interleaving of their create_scheduling_group calls; an id handed out is
\* not 0 or 1 and is below max_scheduling_groups; an id that is free in the
\* bitmap has no task queue on any shard; an allocation takes an id that was
\* free; and a creation that fails changes neither the bitmap nor any queue.
C33_GroupIdsUnique ==
    /\ [](/\ \A c1, c2 \in SgCallers :
                c1 /= c2 /\ SgHolds(c1) /\ SgHolds(c2) => sg_id[c1] /= sg_id[c2]
          /\ \A c1 \in SgCallers :
                SgHolds(c1) => /\ sg_id[c1] \notin SgReserved
                               /\ sg_id[c1] < MaxSchedulingGroups
                               /\ sg_id[c1] \in sg_bitmap
          /\ \A n \in SgBits \ sg_bitmap, sh \in SgShards :
                n \notin sg_queues[sh])
    /\ [][/\ sg_did' = "allocated" =>
                /\ Cardinality(sg_bitmap) < MaxSchedulingGroups
                /\ Cardinality(sg_bitmap') = Cardinality(sg_bitmap) + 1
                /\ sg_bitmap \subseteq sg_bitmap'
          /\ sg_did' = "failed" =>
                /\ sg_bitmap' = sg_bitmap
                /\ sg_queues' = sg_queues]_vars

\* every id is in use by two callers and the third caller's creation has
\* just failed
C33_Witness ==
    /\ sg_did = "failed"
    /\ Cardinality(sg_bitmap) = MaxSchedulingGroups
    /\ Cardinality({c1 \in SgCallers : SgHolds(c1)}) = MaxSchedulingGroups - 2

\* the work items that hold a unit: granted by submit_item, not yet completed
InTransit == pending_fifo \o pendingRing \o completed_fifo \o completedRing

\* C34: a work item is in one place at a time (pending_fifo, request ring,
\* being processed, _completed_fifo, completion ring, deleted); it is handled
\* at most once by the destination shard and has been handled exactly once
\* when it is past the request ring; its completion is processed at most once
\* and only after it was handled; each completion processed gives exactly one
\* unit back to the semaphore or to a waiting submit_item call; and the
\* units taken equal the items granted and not yet completed.
C34_ItemsAndUnits ==
    /\ [](/\ Len(InTransit) = Cardinality(Range(InTransit))
          /\ Range(InTransit) \cap inflight = {}
          /\ Range(InTransit) \cap deletedItems = {}
          /\ inflight \cap deletedItems = {}
          /\ Len(handled) = Cardinality(Range(handled))
          /\ Range(handled) = inflight \cup Range(completed_fifo)
                                  \cup Range(completedRing) \cup deletedItems
          /\ SemUnits - semAvail = Len(InTransit) + Cardinality(inflight))
    /\ [][deletedItems' /= deletedItems =>
            /\ deletedItems \subseteq deletedItems'
            /\ Cardinality(deletedItems') - Cardinality(deletedItems)
                  = (semAvail' - semAvail) + (Len(semWait) - Len(semWait'))]_vars

\* completions have been processed while submit_item calls were waiting for
\* a unit, and items are at every stage
C34_Witness ==
    /\ Cardinality(deletedItems) >= 2
    /\ semAvail = 0
    /\ inflight /= {}
    /\ pendingRing /= <<>>
    /\ failedItems = {}

\* C35: drain passes requests to the consumer in submission order, starting
\* with the oldest pending one and stopping after the first one that is not
\* taken; it returns the number taken, removes exactly those and leaves the
\* others in their order; every request submitted is either consumed or
\* still pending, in submission order, and none is consumed twice.
C35_DrainConsumesPrefix ==
    /\ [](io_consumed \o io_pending = [n \in 1..(io_next - 1) |-> n])
    /\ [][io_did' = "drain" =>
            /\ IsPrefix(io_offered', io_pending)
            /\ io_ret' <= Len(io_offered')
            /\ Len(io_offered') <= io_ret' + 1
            /\ Len(io_offered') = io_ret' => io_ret' = Len(io_pending)
            /\ io_consumed' = io_consumed \o SubSeq(io_pending, 1, io_ret')
            /\ IsPrefix(SubSeq(io_pending, io_ret' + 1, Len(io_pending)),
                        io_pending')]_vars

\* a drain stopped at a request the consumer did not take, after taking
\* some, with more requests behind it
C35_Witness ==
    /\ io_did = "drain"
    /\ io_ret >= 1
    /\ Len(io_offered) = io_ret + 1
    /\ Len(io_pending) >= 2
    /\ io_consumed /= <<>>

\* C36: a timer that is not armed (cancelled, or fired without a period) is
\* neither in the timer set nor on the expired list, so that its callback is
\* not invoked before it is armed again; a cancel that finds the timer armed
\* takes it off whichever of the two it is on, the expired list of the batch
\* that is running included; and a periodic timer that cancels itself in its
\* callback is disarmed and not queued when the callback returns.
C36_CancelledNeverFires ==
    /\ [](\A t \in Timers :
            ~t_armed[t] => /\ t \notin timer_set
                           /\ t \notin Range(expired_timers)
                           /\ unfired[t] = 0)
    /\ [][\A t \in Timers :
            /\ Fires(t) => unfired[t] >= 1
            /\ Fires(t) /\ cbSelf' = "cancel" =>
                    ~t_armed'[t] /\ ~t_queued'[t] /\ unfired'[t] = 0
            /\ t_armed[t] /\ ~t_armed'[t] /\ ~Fires(t) =>
                    /\ ~t_queued'[t]
                    /\ ~t_expired'[t]
                    /\ t \notin timer_set'
                    /\ t \notin Range(expired_timers')]_vars

\* a periodic timer has cancelled itself inside its callback
C36_Witness ==
    /\ cbSelf = "cancel"
    /\ batchFired /= <<>>
    /\ \E t \in Timers :
        /\ t_period[t] /= 0
        /\ ~t_armed[t]
        /\ ~t_queued[t]
        /\ t \notin timer_set

\* C37: outside complete_timers, when the low-resolution timer set is not
\* empty, _lowres_next_timeout is not lowres_clock::time_point() and is not
\* later than the earliest deadline queued.
C37_NextTimeoutCoversSet ==
    lr_pc = "idle" /\ lr_set /= {} =>
        /\ lr_next /= NoLowresTimeout
        /\ \A t \in lr_set : lr_next <= lr_expiry[t]

\* the items on the cross-CPU free list or still to be freed by the drain
\* under way
OnFreeList ==
    Chain(xf_nextp, xf_head, MaxXItems) \cup Chain(xf_nextp, xf_walk, MaxXItems)

\* C38: under any interleaving of free_cross_cpu and
\* drain_cross_cpu_freelist, the owner frees a pointer at most once per push,
\* and a pushed pointer not freed yet is on the list or in the hands of the
\* drain: none is lost, none is freed twice.
C38_PushedFreedOnce ==
    \A i \in XItems :
        /\ xf_frees[i] \in {xf_pushes[i], xf_pushes[i] - 1}
        /\ xf_frees[i] = xf_pushes[i] - 1 <=> i \in OnFreeList

\* every pointer has been pushed, one of them twice and freed twice, and a
\* pointer the owner has freed was linked in front of another one
C38_Witness ==
    /\ \E i \in XItems : xf_pushes[i] = 2 /\ xf_frees[i] = 2
    /\ \E i \in XItems : xf_nextp[i] /= 0 /\ xf_frees[i] >= 1
    /\ \A i \in XItems : xf_pushes[i] >= 1

\* the reactor thread keeps running: it polls, or tries to sleep
SpecSignalFair == SpecSignal /\ WF_vars(sn_reactor)

\* C39: a signal delivered and not handled since is still a bit of
\* _pending_signals or of the bits poll_signal has loaded and not handled;
\* the reactor never sleeps with one; and every delivered signal is followed
\* by an invocation of its handler.
C39_NoSignalLost ==
    /\ [](\A s \in sn_unhandled :
            \/ s \in sn_pending
            \/ sn_pc \in {"clear", "handlers"} /\ s \in sn_loaded)
    /\ [](sn_pc = "asleep" => sn_pending = {} /\ sn_unhandled = {})
    /\ \A s \in SignalNos : (s \in sn_unhandled) ~> (s \notin sn_unhandled)

\* a signal arrived between the load and the fetch_and of poll_signal, and
\* its bit survived the fetch_and
C39_Witness ==
    /\ sn_pc = "handlers"
    /\ ~sn_entering
    /\ sn_pending /= {}
    /\ sn_pending \cap sn_loaded = {}

\* C40: with select_any over n requests answered once each, f is called at
\* most once, with the first result that arrives; g is called at most once,
\* with all_requests_failed and only when all n requests have failed; f and
\* g are never both called.
C40_SelectAny ==
    /\ sa_results = IF sa_ok = <<>> THEN <<>> ELSE <<Head(sa_ok)>>
    /\ Len(sa_errors) <= 1
    /\ sa_errors /= <<>> =>
          /\ sa_errors = <<"all_requests_failed">>
          /\ sa_failed = sa_ids
          /\ sa_results = <<>>

\* all of three or more requests are answered: an error first, then two
\* results or more, and f was called
C40_Witness ==
    /\ sa_started
    /\ sa_left = {}
    /\ sa_failed /= {}
    /\ Len(sa_ok) >= 2
    /\ Len(sa_results) = 1

====
